---- MODULE Spec2Model ----
(***************************************************************************)
(* Entitlement resolution, subscription reconciliation and agent usage of  *)
(* the agent marketplace backend: app/auth.py, app/stripe.py,              *)
(* app/api/subscription.py, app/api/agents.py and app/api/portfolio.py     *)
(* over the Subscription, UserAgent, AgentUsage and AnalysisResult tables  *)
(* of app/models.py and the tier catalog of app/config.py.                 *)
(***************************************************************************)
EXTENDS Naturals, Sequences, FiniteSets, TLC

VARIABLES
    subscriptions,  \* table subscriptions: row id = index (autoincrement, no deletes)
    user_agents,    \* table user_agents: row id = index
    events,         \* the billing provider's event log, in emission order
    pending,        \* check_agent_access calls between their lookup and their insert
    last,           \* the last operation served and its response
    agent_instances,    \* the dict agent_instances of app/api/agents.py
    agent_objects,      \* the backends constructed so far, in construction order
    agent_usage,        \* table agent_usage: row id = index
    analysis_results,   \* table analysis_results: row id = index
    requests        \* portfolio requests awaiting the backend or their usage task

agent_vars ==
    <<agent_instances, agent_objects, agent_usage, analysis_results, requests>>

vars == <<subscriptions, user_agents, events, pending, last, agent_vars>>

\* Python's None / SQL NULL of the string-valued columns and fields.
None == "None"

(***************************************************************************)
(* Bounds of the model.                                                    *)
(***************************************************************************)
MaxSubscriptions == 3
MaxUserAgents == 2
MaxEvents == 3
MaxAnalyses == 2

Users == {1, 2}
CustomerRefs == {"cus_1", "cus_2"}
SubscriptionRefs == {"sub_1", "sub_2"}
\* one capability of basic, one first offered by professional, one by
\* enterprise only, and the missing path parameter
AgentInputs == {"portfolio_agent", "stockfinder", "tradeagent", None}
PriceInputs == {"price_pro", "price_ent", "price_other"}
\* the status a new provider subscription starts in, and the statuses a
\* live one moves between
CreateStatuses == {"trialing", "incomplete"}
UpdateStatuses == {"active", "past_due"}

(***************************************************************************)
(* Tier catalog (app/config.py).                                           *)
(***************************************************************************)
STRIPE_PRICE_ID_PRO == "price_pro"
STRIPE_PRICE_ID_ENTERPRISE == "price_ent"

SUBSCRIPTION_TIERS ==
    [basic |->
        [agents |-> <<"portfolio_agent">>,
         price_id |-> None],
     professional |->
        [agents |-> <<"portfolio_agent", "stockfinder", "newsagent",
                      "options_strategy_agent", "etf_screener_agent">>,
         price_id |-> STRIPE_PRICE_ID_PRO],
     enterprise |->
        [agents |-> <<"portfolio_agent", "stockfinder", "newsagent",
                      "options_strategy_agent", "etf_screener_agent",
                      "social_sentiment_agent", "macro_sector_agent",
                      "tradeagent", "portfolioadvisoragent">>,
         price_id |-> STRIPE_PRICE_ID_ENTERPRISE]]

\* the dict's iteration order
TierOrder == <<"basic", "professional", "enterprise">>

SubscriptionTier == {"basic", "professional", "enterprise"}

Range(s) == {s[i] : i \in DOMAIN s}

Max(S) == CHOOSE x \in S : \A y \in S : y <= x

Min(S) == CHOOSE x \in S : \A y \in S : x <= y

\* the lookup giving a paid tier only what the tier below does not have
available_agents_own(tier) ==
    IF tier = "enterprise"
    THEN Range(SUBSCRIPTION_TIERS[tier].agents)
            \ Range(SUBSCRIPTION_TIERS["professional"].agents)
    ELSE IF tier \in DOMAIN SUBSCRIPTION_TIERS
    THEN Range(SUBSCRIPTION_TIERS[tier].agents)
    ELSE {}

\* settings.SUBSCRIPTION_TIERS.get(tier, {}).get("agents", [])
available_agents(tier) ==
    IF tier \in DOMAIN SUBSCRIPTION_TIERS
    THEN Range(SUBSCRIPTION_TIERS[tier].agents)
    ELSE {}

\* status in ["active", "trialing"]
status_is_active(status) == status \in {"active", "trialing"}

\* the keys of AGENT_MODULES (app/api/agents.py)
AGENT_MODULES ==
    {"portfolio_agent", "stockfinder", "newsagent", "options_strategy_agent",
     "etf_screener_agent", "social_sentiment_agent", "macro_sector_agent",
     "tradeagent", "portfolioadvisoragent"}

(***************************************************************************)
(* Rows.                                                                   *)
(***************************************************************************)
Subscription(user_id, tier, customer, sub, active, renew) ==
    [user_id |-> user_id, tier |-> tier,
     stripe_customer_id |-> customer, stripe_subscription_id |-> sub,
     is_active |-> active, auto_renew |-> renew,
     started_at |-> "utcnow", ended_at |-> None]

UserAgent(user_id, agent_id, enabled) ==
    [user_id |-> user_id, agent_id |-> agent_id, is_enabled |-> enabled]

\* query(Subscription).filter(column == value).first(): both provider
\* reference columns are unique, so at most one row matches; 0 is "no row"
first_by_customer(rows, customer) ==
    LET ids == {i \in DOMAIN rows : rows[i].stripe_customer_id = customer}
    IN  IF ids = {} THEN 0 ELSE Min(ids)

first_by_subscription(rows, sub) ==
    LET ids == {i \in DOMAIN rows : rows[i].stripe_subscription_id = sub}
    IN  IF ids = {} THEN 0 ELSE Min(ids)

\* a lookup that finds no grant
first_user_agent_none(rows, user_id, agent_id) == 0

\* query(UserAgent).filter(user_id, agent_id).first(): no ORDER BY, the
\* configured SQLite store scans in rowid order; 0 is "no row"
first_user_agent(rows, user_id, agent_id) ==
    LET ids == {i \in DOMAIN rows :
                    rows[i].user_id = user_id /\ rows[i].agent_id = agent_id}
    IN  IF ids = {} THEN 0 ELSE Min(ids)

\* the unique constraints of stripe_customer_id and stripe_subscription_id
\* (NULLs never collide)
unique_ok(rows) ==
    \A i, j \in DOMAIN rows :
        i # j =>
            /\ rows[i].stripe_customer_id # None
                => rows[i].stripe_customer_id # rows[j].stripe_customer_id
            /\ rows[i].stripe_subscription_id # None
                => rows[i].stripe_subscription_id # rows[j].stripe_subscription_id

\* the resolution without the filter on is_active
get_subscription_user_any_row(rows, user_id) ==
    LET ids == {i \in DOMAIN rows : rows[i].user_id = user_id}
        sid == IF ids = {} THEN 0 ELSE Max(ids)
    IN  [subscription |-> sid,
         tier |-> IF sid = 0 THEN "basic" ELSE rows[sid].tier]

(***************************************************************************)
(* get_subscription_user (app/auth.py): the active row with the greatest   *)
(* id, or no row; the tier defaults to basic.                              *)
(***************************************************************************)
\* the resolution taking the oldest active row
get_subscription_user_oldest(rows, user_id) ==
    LET ids == {i \in DOMAIN rows :
                    rows[i].user_id = user_id /\ rows[i].is_active}
        sid == IF ids = {} THEN 0 ELSE Min(ids)
    IN  [subscription |-> sid,
         tier |-> IF sid = 0 THEN "basic" ELSE rows[sid].tier]

get_subscription_user(rows, user_id) ==
    LET ids == {i \in DOMAIN rows :
                    rows[i].user_id = user_id /\ rows[i].is_active}
        sid == IF ids = {} THEN 0 ELSE Max(ids)
    IN  [subscription |-> sid,
         tier |-> IF sid = 0 THEN "basic" ELSE rows[sid].tier]

\* The last operation served: its name, its user (0: the provider), the
\* capability or the type of the event it was for, and the HTTP outcome or
\* the return value.
Response(op, user, arg, result) ==
    [op |-> op, user |-> user, arg |-> arg, result |-> result]

Init ==
    /\ subscriptions = <<>>
    /\ user_agents = <<>>
    /\ events = <<>>
    /\ pending = {}
    /\ last = Response("init", 0, None, "ok")
    /\ agent_instances = [a \in AGENT_MODULES |-> 0]
    /\ agent_objects = <<>>
    /\ agent_usage = <<>>
    /\ analysis_results = <<>>
    /\ requests = {}

\* the check without the test of is_enabled
check_agent_access_any_grant(tier, user_id, agent_id, rows) ==
    IF agent_id = None
    THEN [result |-> "400 agent id not specified", user_agent |-> 0,
          rows |-> rows]
    ELSE IF agent_id \notin available_agents(tier)
    THEN [result |-> "403 tier", user_agent |-> 0, rows |-> rows]
    ELSE LET ua == first_user_agent(rows, user_id, agent_id)
         IN  IF ua = 0
             THEN [result |-> "allowed", user_agent |-> Len(rows) + 1,
                   rows |-> Append(rows, UserAgent(user_id, agent_id, TRUE))]
             ELSE [result |-> "allowed", user_agent |-> ua, rows |-> rows]

\* the check with the grant looked up before the tier
check_agent_access_grant_first(tier, user_id, agent_id, rows) ==
    LET ua == first_user_agent(rows, user_id, agent_id)
    IN  IF agent_id = None
        THEN [result |-> "400 agent id not specified", user_agent |-> 0,
              rows |-> rows]
        ELSE IF ua # 0 /\ ~rows[ua].is_enabled
        THEN [result |-> "403 disabled", user_agent |-> 0, rows |-> rows]
        ELSE IF agent_id \notin available_agents(tier)
        THEN [result |-> "403 tier", user_agent |-> 0, rows |-> rows]
        ELSE IF ua = 0
        THEN [result |-> "allowed", user_agent |-> Len(rows) + 1,
              rows |-> Append(rows, UserAgent(user_id, agent_id, TRUE))]
        ELSE [result |-> "allowed", user_agent |-> ua, rows |-> rows]

\* the check creating the grant before it looks at the tier
check_agent_access_eager(tier, user_id, agent_id, rows) ==
    IF agent_id = None
    THEN [result |-> "400 agent id not specified", user_agent |-> 0,
          rows |-> rows]
    ELSE LET ua == first_user_agent(rows, user_id, agent_id)
             made == IF ua = 0
                     THEN Append(rows, UserAgent(user_id, agent_id, TRUE))
                     ELSE rows
             g == IF ua = 0 THEN Len(rows) + 1 ELSE ua
         IN  IF agent_id \notin available_agents(tier)
             THEN [result |-> "403 tier", user_agent |-> 0, rows |-> made]
             ELSE IF ~made[g].is_enabled
             THEN [result |-> "403 disabled", user_agent |-> 0, rows |-> made]
             ELSE [result |-> "allowed", user_agent |-> g, rows |-> made]

(***************************************************************************)
(* check_agent_access (app/auth.py): the outcome, the grant returned and   *)
(* the user_agents table it leaves, for a caller resolved to `tier`        *)
(* reading the table `rows`.                                               *)
(***************************************************************************)
check_agent_access(tier, user_id, agent_id, rows) ==
    IF agent_id = None
    THEN [result |-> "400 agent id not specified", user_agent |-> 0,
          rows |-> rows]
    ELSE IF agent_id \notin available_agents(tier)
    THEN [result |-> "403 tier", user_agent |-> 0, rows |-> rows]
    ELSE LET ua == first_user_agent(rows, user_id, agent_id)
         IN  IF ua = 0
             THEN [result |-> "allowed", user_agent |-> Len(rows) + 1,
                   rows |-> Append(rows, UserAgent(user_id, agent_id, TRUE))]
             ELSE IF ~rows[ua].is_enabled
             THEN [result |-> "403 disabled", user_agent |-> 0, rows |-> rows]
             ELSE [result |-> "allowed", user_agent |-> ua, rows |-> rows]

\* One call served with no other transaction between its lookup and its
\* insert.
CheckAgentAccess(user_id, agent_id) ==
    LET out == check_agent_access(get_subscription_user(subscriptions, user_id).tier,
                                  user_id, agent_id, user_agents)
    IN  /\ Len(out.rows) <= MaxUserAgents
        /\ user_agents' = out.rows
        /\ last' = Response("check_agent_access", user_id, agent_id,
                            out.result)
        /\ UNCHANGED <<agent_vars, subscriptions, events, pending>>

\* A call on worker w whose lookup (lines 166-183) passes the tier check and
\* finds no grant: it goes on to the insert, and other workers' transactions
\* may commit in between.
CheckAgentAccessLookup(w, user_id, agent_id) ==
    /\ \A p \in pending : p.worker # w
    /\ agent_id # None
    /\ agent_id \in available_agents(get_subscription_user(subscriptions, user_id).tier)
    /\ first_user_agent(user_agents, user_id, agent_id) = 0
    /\ pending' = pending \cup
            {[worker |-> w, user_id |-> user_id, agent_id |-> agent_id]}
    /\ UNCHANGED <<agent_vars, subscriptions, user_agents, events, last>>

\* The insert of that call (lines 184-192) and its return (lines 199-205).
CheckAgentAccessInsert(w) ==
    \E p \in pending :
        /\ p.worker = w
        /\ Len(user_agents) < MaxUserAgents
        /\ user_agents' = Append(user_agents,
                                 UserAgent(p.user_id, p.agent_id, TRUE))
        /\ pending' = pending \ {p}
        /\ last' = Response("check_agent_access", p.user_id, p.agent_id,
                            "allowed")
        /\ UNCHANGED <<agent_vars, subscriptions, events>>

(***************************************************************************)
(* toggle_agent (app/api/agents.py): check_agent_access runs first as the  *)
(* route's dependency, on the path's agent_id.                             *)
(***************************************************************************)
toggle_agent(tier, user_id, agent_id, enabled, rows) ==
    LET chk == check_agent_access(tier, user_id, agent_id, rows)
        ua == first_user_agent(chk.rows, user_id, agent_id)
    IN  IF chk.result # "allowed"
        THEN [result |-> chk.result, rows |-> chk.rows]
        ELSE IF agent_id \notin available_agents(tier)
        THEN [result |-> "403 tier", rows |-> chk.rows]
        ELSE IF ua = 0
        THEN [result |-> "ok",
              rows |-> Append(chk.rows, UserAgent(user_id, agent_id, enabled))]
        ELSE [result |-> "ok",
              rows |-> [chk.rows EXCEPT ![ua].is_enabled = enabled]]

ToggleAgent(user_id, agent_id, enabled) ==
    LET out == toggle_agent(get_subscription_user(subscriptions, user_id).tier,
                            user_id, agent_id, enabled, user_agents)
    IN  /\ Len(out.rows) <= MaxUserAgents
        /\ user_agents' = out.rows
        /\ last' = Response("toggle_agent", user_id, agent_id, out.result)
        /\ UNCHANGED <<agent_vars, subscriptions, events, pending>>

(***************************************************************************)
(* The billing provider, as far as the backend sees it: the events it has  *)
(* emitted.  A provider subscription is created once, then updated, then   *)
(* deleted; every event carries the subscription's customer and price.     *)
(***************************************************************************)
Event(type, id, customer, status, cancel_at_period_end, price_id, canceled_at) ==
    [type |-> type, id |-> id, customer |-> customer, status |-> status,
     cancel_at_period_end |-> cancel_at_period_end, price_id |-> price_id,
     start_date |-> "ts_start", current_period_end |-> "ts_period_end",
     canceled_at |-> canceled_at]

provider_created(log, sub) ==
    \E i \in DOMAIN log :
        log[i].type = "customer.subscription.created" /\ log[i].id = sub

provider_deleted(log, sub) ==
    \E i \in DOMAIN log :
        log[i].type = "customer.subscription.deleted" /\ log[i].id = sub

provider_live(log, sub) == provider_created(log, sub) /\ ~provider_deleted(log, sub)

creation_event(log, sub) ==
    log[CHOOSE i \in DOMAIN log :
            log[i].type = "customer.subscription.created" /\ log[i].id = sub]

\* What stripe.Subscription.create does: a new subscription of the
\* customer, announced by customer.subscription.created.
stripe_subscription_create(log, sub, customer, price_id, status) ==
    Append(log,
        Event("customer.subscription.created", sub, customer, status, FALSE,
              price_id, None))

\* What stripe.Subscription.delete, or the provider on its own, does to a
\* live subscription, announced by customer.subscription.deleted.
stripe_subscription_delete(log, sub) ==
    Append(log,
        Event("customer.subscription.deleted", sub,
              creation_event(log, sub).customer, "canceled", FALSE,
              creation_event(log, sub).price_id, "ts_canceled"))

\* The provider changes a live subscription's status or renewal
\* (customer.subscription.updated).
ProviderUpdate(sub, status, cancel_at_period_end) ==
    /\ Len(events) < MaxEvents
    /\ provider_live(events, sub)
    /\ events' = Append(events,
            Event("customer.subscription.updated", sub,
                  creation_event(events, sub).customer, status,
                  cancel_at_period_end,
                  creation_event(events, sub).price_id, None))
    /\ UNCHANGED <<agent_vars, subscriptions, user_agents, pending, last>>

\* The provider ends a live subscription on its own.
ProviderDelete(sub) ==
    /\ Len(events) < MaxEvents
    /\ provider_live(events, sub)
    /\ events' = stripe_subscription_delete(events, sub)
    /\ UNCHANGED <<agent_vars, subscriptions, user_agents, pending, last>>

\* The provider ends a live subscription at the end of its period: the
\* deleted event carries no cancel time.
ProviderExpire(sub) ==
    /\ Len(events) < MaxEvents
    /\ provider_live(events, sub)
    /\ events' = Append(events,
            Event("customer.subscription.deleted", sub,
                  creation_event(events, sub).customer, "canceled", FALSE,
                  creation_event(events, sub).price_id, None))
    /\ UNCHANGED <<agent_vars, subscriptions, user_agents, pending, last>>

\* the customer ref and the subscription ref the provider hands out next
fresh_customers(rows, log) ==
    {c \in CustomerRefs :
        /\ \A i \in DOMAIN log : log[i].customer # c
        /\ \A i \in DOMAIN rows : rows[i].stripe_customer_id # c}

fresh_subscriptions(log) ==
    {s \in SubscriptionRefs : ~provider_created(log, s)}

(***************************************************************************)
(* process_stripe_webhook (app/stripe.py).                                 *)
(***************************************************************************)
\* datetime.fromtimestamp: a TypeError on None
fromtimestamp(ts) ==
    CASE ts = "ts_start" -> "dt_start"
      [] ts = "ts_period_end" -> "dt_period_end"
      [] ts = "ts_canceled" -> "dt_canceled"
      [] OTHER -> "TypeError"

\* the first timestamp, whatever it is
py_or_first(a, b) == a

\* a or b on timestamps
py_or(a, b) == IF a # None THEN a ELSE b

\* no price mapped to a tier
tier_for_price_default(price_id, default) == default

\* for tier, tier_data in SUBSCRIPTION_TIERS.items():
\*     if tier_data.get("price_id") == price_id: ...; break
tier_for_price(price_id, default) ==
    LET hits == {i \in DOMAIN TierOrder :
                    SUBSCRIPTION_TIERS[TierOrder[i]].price_id = price_id}
    IN  IF hits = {} THEN default ELSE TierOrder[Min(hits)]

\* the price_id of an event whose items list is empty
NoItems == "no items"

\* lines 179-187: the tier the created branch leaves on a row of tier
\* `tier`; the loop runs only if the event has items
event_tier(e, tier) ==
    IF e.price_id = NoItems THEN tier ELSE tier_for_price(e.price_id, tier)

\* db.commit() of changed rows: an IntegrityError on a unique constraint is
\* caught at line 248, rolled back and answered False
commit_or_rollback(old, new) ==
    IF unique_ok(new)
    THEN [result |-> "True", rows |-> new]
    ELSE [result |-> "False", rows |-> old]

\* the created branch answering a lookup miss with False
webhook_created_strict(e, rows) ==
    LET id == first_by_customer(rows, e.customer)
    IN  IF id = 0
        THEN [result |-> "False", rows |-> rows]
        ELSE IF fromtimestamp(e.start_date) = "TypeError"
        THEN [result |-> "False", rows |-> rows]
        ELSE commit_or_rollback(rows,
                [rows EXCEPT ![id] =
                    [rows[id] EXCEPT
                        !.stripe_subscription_id = e.id,
                        !.is_active = status_is_active(e.status),
                        !.started_at = fromtimestamp(e.start_date),
                        !.ended_at = None,
                        !.tier = event_tier(e, rows[id].tier)]])

\* lines 161-190
webhook_created(e, rows) ==
    LET id == first_by_customer(rows, e.customer)
    IN  IF id = 0
        THEN [result |-> "True", rows |-> rows]
        ELSE IF fromtimestamp(e.start_date) = "TypeError"
        THEN [result |-> "False", rows |-> rows]
        ELSE commit_or_rollback(rows,
                [rows EXCEPT ![id] =
                    [rows[id] EXCEPT
                        !.stripe_subscription_id = e.id,
                        !.is_active = status_is_active(e.status),
                        !.started_at = fromtimestamp(e.start_date),
                        !.ended_at = None,
                        !.tier = event_tier(e, rows[id].tier)]])

\* the updated branch flipping auto_renew instead of setting it
webhook_updated_relative(e, rows) ==
    LET id == first_by_subscription(rows, e.id)
    IN  IF id = 0
        THEN [result |-> "True", rows |-> rows]
        ELSE commit_or_rollback(rows,
                [rows EXCEPT ![id] =
                    [rows[id] EXCEPT
                        !.is_active = status_is_active(e.status),
                        !.auto_renew = ~@,
                        !.ended_at = IF e.cancel_at_period_end
                                     THEN fromtimestamp(e.current_period_end)
                                     ELSE None]])

\* the updated branch leaving auto_renew and ended_at alone
webhook_updated_status_only(e, rows) ==
    LET id == first_by_subscription(rows, e.id)
    IN  IF id = 0
        THEN [result |-> "True", rows |-> rows]
        ELSE commit_or_rollback(rows,
                [rows EXCEPT ![id].is_active = status_is_active(e.status)])

\* the updated branch restarting the row
webhook_updated_restarts(e, rows) ==
    LET id == first_by_subscription(rows, e.id)
    IN  IF id = 0
        THEN [result |-> "True", rows |-> rows]
        ELSE commit_or_rollback(rows,
                [rows EXCEPT ![id] =
                    [rows[id] EXCEPT
                        !.is_active = status_is_active(e.status),
                        !.auto_renew = ~e.cancel_at_period_end,
                        !.started_at = "utcnow",
                        !.ended_at = IF e.cancel_at_period_end
                                     THEN fromtimestamp(e.current_period_end)
                                     ELSE None]])

\* lines 192-215
webhook_updated(e, rows) ==
    LET id == first_by_subscription(rows, e.id)
    IN  IF id = 0
        THEN [result |-> "True", rows |-> rows]
        ELSE IF e.cancel_at_period_end
        THEN IF fromtimestamp(e.current_period_end) = "TypeError"
             THEN [result |-> "False", rows |-> rows]
             ELSE commit_or_rollback(rows,
                    [rows EXCEPT ![id] =
                        [rows[id] EXCEPT
                            !.is_active = status_is_active(e.status),
                            !.auto_renew = FALSE,
                            !.ended_at = fromtimestamp(e.current_period_end)]])
        ELSE commit_or_rollback(rows,
                [rows EXCEPT ![id] =
                    [rows[id] EXCEPT
                        !.is_active = status_is_active(e.status),
                        !.auto_renew = TRUE,
                        !.ended_at = None]])

\* the deleted branch keeping what it set before the exception
webhook_deleted_no_rollback(e, rows) ==
    LET id == first_by_subscription(rows, e.id)
        ended == fromtimestamp(py_or(e.canceled_at, e.current_period_end))
    IN  IF id = 0
        THEN [result |-> "True", rows |-> rows]
        ELSE IF ended = "TypeError"
        THEN [result |-> "False",
              rows |-> [rows EXCEPT ![id] =
                            [rows[id] EXCEPT !.is_active = FALSE,
                                             !.auto_renew = FALSE]]]
        ELSE commit_or_rollback(rows,
                Append([rows EXCEPT ![id] =
                            [rows[id] EXCEPT
                                !.is_active = FALSE,
                                !.auto_renew = FALSE,
                                !.ended_at = ended]],
                       Subscription(rows[id].user_id, "basic", None, None,
                                    TRUE, FALSE)))

\* the deleted branch recording the end and leaving the row active
webhook_deleted_keeps_active(e, rows) ==
    LET id == first_by_subscription(rows, e.id)
        ended == fromtimestamp(py_or(e.canceled_at, e.current_period_end))
    IN  IF id = 0
        THEN [result |-> "True", rows |-> rows]
        ELSE IF ended = "TypeError"
        THEN [result |-> "False", rows |-> rows]
        ELSE commit_or_rollback(rows,
                [rows EXCEPT ![id] =
                    [rows[id] EXCEPT
                        !.auto_renew = FALSE,
                        !.ended_at = ended]])

\* lines 217-244
webhook_deleted(e, rows) ==
    LET id == first_by_subscription(rows, e.id)
        ended == fromtimestamp(py_or(e.canceled_at, e.current_period_end))
    IN  IF id = 0
        THEN [result |-> "True", rows |-> rows]
        ELSE IF ended = "TypeError"
        THEN [result |-> "False", rows |-> rows]
        ELSE commit_or_rollback(rows,
                Append([rows EXCEPT ![id] =
                            [rows[id] EXCEPT
                                !.is_active = FALSE,
                                !.auto_renew = FALSE,
                                !.ended_at = ended]],
                       Subscription(rows[id].user_id, "basic", None, None,
                                    TRUE, FALSE)))

\* the handler refusing the event types it does not know
process_stripe_webhook_strict(e, rows) ==
    CASE e.type = "customer.subscription.created" -> webhook_created(e, rows)
      [] e.type = "customer.subscription.updated" -> webhook_updated(e, rows)
      [] e.type = "customer.subscription.deleted" -> webhook_deleted(e, rows)
      [] OTHER -> [result |-> "False", rows |-> rows]

process_stripe_webhook(e, rows) ==
    CASE e.type = "customer.subscription.created" -> webhook_created(e, rows)
      [] e.type = "customer.subscription.updated" -> webhook_updated(e, rows)
      [] e.type = "customer.subscription.deleted" -> webhook_deleted(e, rows)
      [] OTHER -> [result |-> "True", rows |-> rows]

\* The provider delivers event i of its log: any event, any number of times,
\* in any order.
Webhook(i) ==
    LET out == process_stripe_webhook(events[i], subscriptions)
    IN  /\ i \in DOMAIN events
        /\ Len(out.rows) <= MaxSubscriptions
        /\ subscriptions' = out.rows
        /\ last' = Response("process_stripe_webhook", 0, events[i].type,
                            out.result)
        /\ UNCHANGED <<agent_vars, user_agents, events, pending>>

\* An event of a type the handler does not know.
UnhandledEvent ==
    Event("invoice.paid", "in_1", "cus_1", "paid", FALSE, None, None)

WebhookUnhandled ==
    LET out == process_stripe_webhook(UnhandledEvent, subscriptions)
    IN  /\ subscriptions' = out.rows
        /\ last' = Response("process_stripe_webhook", 0, UnhandledEvent.type,
                            out.result)
        /\ UNCHANGED <<agent_vars, user_agents, events, pending>>

\* event e without its timestamps: subscription.get("start_date"),
\* .get("canceled_at") and .get("current_period_end") give None
malformed(e) ==
    [e EXCEPT !.start_date = None, !.canceled_at = None,
              !.current_period_end = None]

\* The handler is given event i of the log without its timestamps.
WebhookMalformed(i) ==
    LET out == process_stripe_webhook(malformed(events[i]), subscriptions)
    IN  /\ i \in DOMAIN events
        /\ Len(out.rows) <= MaxSubscriptions
        /\ subscriptions' = out.rows
        /\ last' = Response("process_stripe_webhook", 0, events[i].type,
                            out.result)
        /\ UNCHANGED <<agent_vars, user_agents, events, pending>>

\* The handler is given event i of the log with an item whose price has no
\* id (price_id None), or with no item.
WebhookUnpriced(i, price_id) ==
    LET out == process_stripe_webhook([events[i] EXCEPT !.price_id = price_id],
                                      subscriptions)
    IN  /\ i \in DOMAIN events
        /\ price_id \in {None, NoItems}
        /\ Len(out.rows) <= MaxSubscriptions
        /\ subscriptions' = out.rows
        /\ last' = Response("process_stripe_webhook", 0, events[i].type,
                            out.result)
        /\ UNCHANGED <<agent_vars, user_agents, events, pending>>

(***************************************************************************)
(* create_subscription (app/auth.py): the row helper.  create_user calls   *)
(* it for the basic tier; for a paid tier it stores the provider's         *)
(* references.                                                             *)
(***************************************************************************)
create_subscription(rows, user_id, tier, customer, sub) ==
    LET new == Append(rows,
                    Subscription(user_id, tier, customer, sub,
                                 tier = "basic", tier # "basic"))
    IN  IF unique_ok(new)
        THEN [result |-> "ok", rows |-> new]
        ELSE [result |-> "IntegrityError", rows |-> rows]

AuthCreateSubscription(user_id, tier, customer, sub) ==
    LET out == create_subscription(subscriptions, user_id, tier, customer, sub)
    IN  /\ Len(subscriptions) < MaxSubscriptions
        /\ subscriptions' = out.rows
        /\ last' = Response("create_subscription", user_id, None, out.result)
        /\ UNCHANGED <<agent_vars, user_agents, events, pending>>

\* create_user (app/auth.py), for a new user: the basic subscription and a
\* grant for every capability of the basic tier.
create_user(user_id, rows, agents) ==
    LET basic == SUBSCRIPTION_TIERS["basic"].agents
        grant[n \in Nat] ==
            IF n = 0 THEN agents
            ELSE Append(grant[n - 1], UserAgent(user_id, basic[n], TRUE))
    IN  [rows |-> create_subscription(rows, user_id, "basic", None, None).rows,
         agents |-> grant[Len(basic)]]

\* the user has no row yet
new_user(user_id) ==
    /\ \A i \in DOMAIN subscriptions : subscriptions[i].user_id # user_id
    /\ \A i \in DOMAIN user_agents : user_agents[i].user_id # user_id

CreateUser(user_id) ==
    LET out == create_user(user_id, subscriptions, user_agents)
    IN  /\ new_user(user_id)
        /\ Len(out.rows) <= MaxSubscriptions
        /\ Len(out.agents) <= MaxUserAgents
        /\ subscriptions' = out.rows
        /\ user_agents' = out.agents
        /\ last' = Response("create_user", user_id, None, "ok")
        /\ UNCHANGED <<agent_vars, events, pending>>

(***************************************************************************)
(* create_new_subscription (app/api/subscription.py).                      *)
(***************************************************************************)
\* The names app/api/subscription.py binds at module level (its imports,
\* lines 1-17, and its own definitions).  `settings` and `UserAgent`, which
\* lines 125, 156, 159 and 166 read, are not among them.
subscription_module_names ==
    {"APIRouter", "Depends", "HTTPException", "status", "Request", "Session",
     "Dict", "Any", "List", "Optional", "BaseModel", "logging", "get_db",
     "get_current_active_user", "get_subscription_user",
     "create_stripe_customer", "create_subscription", "cancel_subscription",
     "get_subscription_details", "get_stripe_publishable_key",
     "get_subscription_plans", "User", "Subscription", "SubscriptionTier",
     "logger", "router"}

\* lines 123-173, reached once both provider calls have returned: the tier,
\* the row written and the grants provisioned; a NameError or an
\* IntegrityError lands in the handler of line 185
create_new_subscription_local(user_id, cur, customer, sub, price_id, status, rows, agents) ==
    LET tier == tier_for_price(price_id, "professional")
        new == IF cur # 0
               THEN [rows EXCEPT ![cur] =
                        [rows[cur] EXCEPT
                            !.tier = tier,
                            !.stripe_subscription_id = sub,
                            !.is_active = status_is_active(status),
                            !.auto_renew = TRUE,
                            !.stripe_customer_id = customer,
                            !.ended_at = None]]
               ELSE Append(rows,
                        Subscription(user_id, tier, customer, sub,
                                     status_is_active(status), TRUE))
        lacking == {i \in DOMAIN SUBSCRIPTION_TIERS[tier].agents :
                        first_user_agent(agents, user_id,
                            SUBSCRIPTION_TIERS[tier].agents[i]) = 0}
        grant[n \in Nat] ==
            IF n = 0 THEN agents
            ELSE IF n \in lacking
            THEN Append(grant[n - 1],
                        UserAgent(user_id, SUBSCRIPTION_TIERS[tier].agents[n],
                                  TRUE))
            ELSE grant[n - 1]
    IN  IF "settings" \notin subscription_module_names
        THEN [result |-> "500", rows |-> rows, agents |-> agents]
        ELSE IF ~unique_ok(new)
        THEN [result |-> "500", rows |-> rows, agents |-> agents]
        ELSE IF "UserAgent" \notin subscription_module_names
        THEN [result |-> "500", rows |-> new, agents |-> agents]
        ELSE [result |-> "ok", rows |-> new,
              agents |-> grant[Len(SUBSCRIPTION_TIERS[tier].agents)]]

\* the conflict test passing over a subscription that no longer renews
create_conflict_renewing(user_id, rows) ==
    LET cur == get_subscription_user(rows, user_id).subscription
    IN  /\ cur # 0
        /\ rows[cur].is_active
        /\ rows[cur].tier # "basic"
        /\ rows[cur].auto_renew

\* line 102: the caller's resolved subscription is active and paid
create_conflict(user_id, rows) ==
    LET cur == get_subscription_user(rows, user_id).subscription
    IN  cur # 0 /\ rows[cur].is_active /\ rows[cur].tier # "basic"

\* The whole handler.  `stripe` is how the provider answers: "ok",
\* "customer error" (stripe.Customer.create raises) or "subscription error"
\* (stripe.Subscription.create raises); status is the status the provider
\* gives the new subscription.  The outcome: the HTTP result, both tables,
\* the provider's log and the provider calls made.
create_new_subscription(user_id, price_id, stripe, status, rows, agents, log) ==
    LET cur == get_subscription_user(rows, user_id).subscription
        reuse == cur # 0 /\ rows[cur].stripe_customer_id # None
        customer == IF reuse THEN rows[cur].stripe_customer_id
                    ELSE CHOOSE c \in fresh_customers(rows, log) : TRUE
        sub == CHOOSE s \in fresh_subscriptions(log) : TRUE
        local == create_new_subscription_local(user_id, cur, customer, sub,
                        price_id, status, rows, agents)
        same == [rows |-> rows, agents |-> agents, log |-> log]
    IN  IF create_conflict(user_id, rows)
        THEN [result |-> "400 active subscription", calls |-> {}] @@ same
        ELSE IF ~reuse /\ stripe = "customer error"
        THEN [result |-> "500", calls |-> {"Customer.create"}] @@ same
        ELSE IF stripe # "ok"
        THEN [result |-> "500",
              calls |-> IF reuse THEN {"Subscription.create"}
                        ELSE {"Customer.create", "Subscription.create"}]
             @@ same
        ELSE [result |-> local.result,
              calls |-> IF reuse THEN {"Subscription.create"}
                        ELSE {"Customer.create", "Subscription.create"},
              rows |-> local.rows, agents |-> local.agents,
              log |-> stripe_subscription_create(log, sub, customer,
                                                 price_id, status)]

\* the provider still has refs of the model's sets to hand out
stripe_can_create(user_id, rows, log) ==
    LET cur == get_subscription_user(rows, user_id).subscription
    IN  /\ Len(log) < MaxEvents
        /\ fresh_subscriptions(log) # {}
        /\ \/ cur # 0 /\ rows[cur].stripe_customer_id # None
           \/ fresh_customers(rows, log) # {}

CreateNewSubscription(user_id, price_id, stripe, status) ==
    LET out == create_new_subscription(user_id, price_id, stripe, status,
                                       subscriptions, user_agents, events)
    IN  /\ stripe = "ok" /\ ~create_conflict(user_id, subscriptions)
                => stripe_can_create(user_id, subscriptions, events)
        /\ Len(out.rows) <= MaxSubscriptions
        /\ subscriptions' = out.rows
        /\ user_agents' = out.agents
        /\ events' = out.log
        /\ last' = Response("create_new_subscription", user_id, None,
                            out.result)
        /\ UNCHANGED <<agent_vars, pending>>

(***************************************************************************)
(* cancel_current_subscription (app/api/subscription.py).                  *)
(***************************************************************************)
\* the handler ending the paid row at once
cancel_current_subscription_deactivate(user_id, stripe, rows, log) ==
    LET cur == get_subscription_user(rows, user_id).subscription
        sub == rows[cur].stripe_subscription_id
        same == [rows |-> rows, log |-> log]
    IN  IF cur = 0 \/ rows[cur].tier = "basic"
        THEN [result |-> "400 no paid subscription", calls |-> {}] @@ same
        ELSE IF sub # None /\ (stripe # "ok" \/ ~provider_live(log, sub))
        THEN [result |-> "500", calls |-> {"Subscription.delete"}] @@ same
        ELSE [result |-> "ok",
              calls |-> IF sub # None THEN {"Subscription.delete"} ELSE {},
              rows |-> Append([rows EXCEPT ![cur].auto_renew = FALSE,
                                           ![cur].is_active = FALSE],
                              Subscription(user_id, "basic", None, None,
                                           FALSE, FALSE)),
              log |-> IF sub # None THEN stripe_subscription_delete(log, sub)
                      ELSE log]

\* the handler passing a basic subscription on to the cancel
cancel_current_subscription_any_tier(user_id, stripe, rows, log) ==
    LET cur == get_subscription_user(rows, user_id).subscription
        sub == rows[cur].stripe_subscription_id
        same == [rows |-> rows, log |-> log]
    IN  IF cur = 0
        THEN [result |-> "400 no paid subscription", calls |-> {}] @@ same
        ELSE IF sub # None /\ (stripe # "ok" \/ ~provider_live(log, sub))
        THEN [result |-> "500", calls |-> {"Subscription.delete"}] @@ same
        ELSE [result |-> "ok",
              calls |-> IF sub # None THEN {"Subscription.delete"} ELSE {},
              rows |-> Append([rows EXCEPT ![cur].auto_renew = FALSE],
                              Subscription(user_id, "basic", None, None,
                                           FALSE, FALSE)),
              log |-> IF sub # None THEN stripe_subscription_delete(log, sub)
                      ELSE log]

\* the handler with the write of auto_renew ahead of the provider call
cancel_current_subscription_write_first(user_id, stripe, rows, log) ==
    LET cur == get_subscription_user(rows, user_id).subscription
        sub == rows[cur].stripe_subscription_id
        same == [rows |-> rows, log |-> log]
    IN  IF cur = 0 \/ rows[cur].tier = "basic"
        THEN [result |-> "400 no paid subscription", calls |-> {}] @@ same
        ELSE IF sub # None /\ (stripe # "ok" \/ ~provider_live(log, sub))
        THEN [result |-> "500", calls |-> {"Subscription.delete"},
              rows |-> [rows EXCEPT ![cur].auto_renew = FALSE], log |-> log]
        ELSE [result |-> "ok",
              calls |-> IF sub # None THEN {"Subscription.delete"} ELSE {},
              rows |-> Append([rows EXCEPT ![cur].auto_renew = FALSE],
                              Subscription(user_id, "basic", None, None,
                                           FALSE, FALSE)),
              log |-> IF sub # None THEN stripe_subscription_delete(log, sub)
                      ELSE log]

cancel_current_subscription(user_id, stripe, rows, log) ==
    LET cur == get_subscription_user(rows, user_id).subscription
        sub == rows[cur].stripe_subscription_id
        same == [rows |-> rows, log |-> log]
    IN  IF cur = 0 \/ rows[cur].tier = "basic"
        THEN [result |-> "400 no paid subscription", calls |-> {}] @@ same
        ELSE IF sub # None /\ (stripe # "ok" \/ ~provider_live(log, sub))
        THEN \* stripe.Subscription.delete raises
             [result |-> "500", calls |-> {"Subscription.delete"}] @@ same
        ELSE [result |-> "ok",
              calls |-> IF sub # None THEN {"Subscription.delete"} ELSE {},
              rows |-> Append([rows EXCEPT ![cur].auto_renew = FALSE],
                              Subscription(user_id, "basic", None, None,
                                           FALSE, FALSE)),
              log |-> IF sub # None THEN stripe_subscription_delete(log, sub)
                      ELSE log]

CancelCurrentSubscription(user_id, stripe) ==
    LET out == cancel_current_subscription(user_id, stripe, subscriptions,
                                           events)
    IN  /\ Len(out.rows) <= MaxSubscriptions
        /\ Len(out.log) <= MaxEvents
        /\ subscriptions' = out.rows
        /\ events' = out.log
        /\ last' = Response("cancel_current_subscription", user_id, None,
                            out.result)
        /\ UNCHANGED <<agent_vars, user_agents, pending>>

(***************************************************************************)
(* The agent backends and their usage (app/api/agents.py) behind the       *)
(* portfolio endpoints (app/api/portfolio.py).                             *)
(***************************************************************************)
\* The names app/api/agents.py binds at module level (its imports, lines
\* 1-12, and its own definitions).  `datetime`, which lines 246 and 272
\* read, is not among them.
agents_module_names ==
    {"APIRouter", "Depends", "HTTPException", "status", "Request", "Session",
     "Dict", "Any", "List", "Optional", "BaseModel", "logging", "importlib",
     "inspect", "get_db", "check_agent_access", "settings", "UserAgent",
     "AgentUsage", "AgentListing", "logger", "router", "AgentInfo",
     "AgentResponse", "AgentCreateRequest", "AGENT_MODULES",
     "AGENT_DESCRIPTIONS", "agent_instances", "get_agent_instance",
     "track_agent_usage"}

\* the backend built on every call, the cache never read
get_agent_instance_uncached(agent_id, cache, objects, loads) ==
    IF agent_id \notin AGENT_MODULES
    THEN [result |-> "ValueError", instance |-> 0, cache |-> cache,
          objects |-> objects]
    ELSE IF ~loads
    THEN [result |-> "ValueError", instance |-> 0, cache |-> cache,
          objects |-> objects]
    ELSE [result |-> "instance", instance |-> Len(objects) + 1,
          cache |-> [cache EXCEPT ![agent_id] = Len(objects) + 1],
          objects |-> Append(objects, agent_id)]

\* get_agent_instance, a coroutine with no await in its body: the instance
\* returned (its position in agent_objects; 0 with the ValueError raised),
\* and the dict and the backends it leaves.  cache[id] = 0: id is not a key of
\* the dict; loads: the import and the constructor raise nothing.
get_agent_instance(agent_id, cache, objects, loads) ==
    IF agent_id \in DOMAIN cache /\ cache[agent_id] # 0
    THEN [result |-> "instance", instance |-> cache[agent_id],
          cache |-> cache, objects |-> objects]
    ELSE IF agent_id \notin AGENT_MODULES
    THEN [result |-> "ValueError", instance |-> 0, cache |-> cache,
          objects |-> objects]
    ELSE IF ~loads
    THEN [result |-> "ValueError", instance |-> 0, cache |-> cache,
          objects |-> objects]
    ELSE [result |-> "instance", instance |-> Len(objects) + 1,
          cache |-> [cache EXCEPT ![agent_id] = Len(objects) + 1],
          objects |-> Append(objects, agent_id)]

\* a new row of agent_usage; subscription_id 0 is NULL
AgentUsage(user_agent_id, subscription_id, month, year) ==
    [user_agent_id |-> user_agent_id, subscription_id |-> subscription_id,
     month |-> month, year |-> year,
     request_count |-> 0, token_count |-> 0, last_used |-> "utcnow"]

\* query(AgentUsage).filter(...).first(), lines 251-256
first_usage(rows, user_agent_id, subscription_id, month, year) ==
    LET ids == {i \in DOMAIN rows :
                    /\ rows[i].user_agent_id = user_agent_id
                    /\ rows[i].subscription_id = subscription_id
                    /\ rows[i].month = month
                    /\ rows[i].year = year}
    IN  IF ids = {} THEN 0 ELSE Min(ids)

\* track_agent_usage called at the time `now` = <<month, year>>: what the
\* coroutine returns or raises, and the table it leaves
track_agent_usage(user_agent_id, subscription_id, request_count, token_count, db, now, rows) ==
    IF ~db
    THEN [result |-> "None", rows |-> rows]
    ELSE IF "datetime" \notin agents_module_names
    THEN [result |-> "NameError", rows |-> rows]
    ELSE LET id == first_usage(rows, user_agent_id, subscription_id,
                               now[1], now[2])
             k == IF id = 0 THEN Len(rows) + 1 ELSE id
             found == IF id = 0
                      THEN Append(rows, AgentUsage(user_agent_id,
                                        subscription_id, now[1], now[2]))
                      ELSE rows
         IN  [result |-> "None",
              rows |-> [found EXCEPT
                            ![k].request_count = @ + request_count,
                            ![k].token_count = @ + token_count,
                            ![k].last_used = "utcnow"]]

\* the three endpoints that call the portfolio backend and the result_type
\* each stores
PortfolioEndpoints ==
    [analyze |-> "portfolio_analysis", optimize |-> "portfolio_optimization",
     risk |-> "risk_analysis"]

AnalysisResult(user_id, result_type) ==
    [user_id |-> user_id, agent_id |-> "portfolio_agent",
     result_type |-> result_type, is_saved |-> FALSE]

\* len(str(result)) // 4
TokenInputs == {0, 3}

\* datetime.now() as <<month, year>>
Clock == {<<11, 2026>>, <<12, 2026>>}

\* analyze_portfolio, optimize_portfolio and analyze_risk on worker w, up to
\* the await of the backend: the dependency check_agent_access on the
\* request's agent_id, then get_agent_instance("portfolio_agent"), whose
\* ValueError the handler answers with 500.
PortfolioRequest(w, endpoint, user_id, agent_id, loads) ==
    LET who == get_subscription_user(subscriptions, user_id)
        chk == check_agent_access(who.tier, user_id, agent_id, user_agents)
        got == get_agent_instance("portfolio_agent", agent_instances,
                                  agent_objects, loads)
    IN  /\ \A r \in requests : r.worker # w
        /\ Len(chk.rows) <= MaxUserAgents
        /\ user_agents' = chk.rows
        /\ IF chk.result # "allowed"
           THEN /\ last' = Response(endpoint, user_id, agent_id, chk.result)
                /\ UNCHANGED <<agent_instances, agent_objects, requests>>
           ELSE /\ agent_instances' = got.cache
                /\ agent_objects' = got.objects
                /\ IF got.result = "ValueError"
                   THEN /\ last' = Response(endpoint, user_id, agent_id, "500")
                        /\ UNCHANGED requests
                   ELSE /\ requests' = requests \cup
                            {[worker |-> w, endpoint |-> endpoint,
                              user_id |-> user_id,
                              user_agent |-> chk.user_agent,
                              subscription |-> who.subscription,
                              agent |-> got.instance, pc |-> "agent",
                              token_count |-> 0]}
                        /\ UNCHANGED last
        /\ UNCHANGED <<subscriptions, events, pending, agent_usage,
                       analysis_results>>

\* The backend answers the request of worker w: the result is stored, the
\* usage task is scheduled and the response sent; or the backend raises and
\* the handler answers 500.
AgentAnswers(w, ok, token_count) ==
    \E r \in requests :
        /\ r.worker = w
        /\ r.pc = "agent"
        /\ IF ok
           THEN /\ Len(analysis_results) < MaxAnalyses
                /\ analysis_results' =
                        Append(analysis_results,
                               AnalysisResult(r.user_id,
                                              PortfolioEndpoints[r.endpoint]))
                /\ requests' = (requests \ {r}) \cup
                        {[r EXCEPT !.pc = "usage",
                                   !.token_count = token_count]}
                /\ last' = Response(r.endpoint, r.user_id, "portfolio_agent",
                                    "ok")
           ELSE /\ requests' = requests \ {r}
                /\ last' = Response(r.endpoint, r.user_id, "portfolio_agent",
                                    "500")
                /\ UNCHANGED analysis_results
        /\ UNCHANGED <<subscriptions, user_agents, events, pending,
                       agent_instances, agent_objects, agent_usage>>

\* The usage task of the request of worker w runs after the response:
\* track_agent_usage(user_agent.id, subscription.id or None, 1, tokens, db).
TrackAgentUsage(w, now) ==
    \E r \in requests :
        LET out == track_agent_usage(r.user_agent, r.subscription, 1,
                                     r.token_count, TRUE, now, agent_usage)
        IN  /\ r.worker = w
            /\ r.pc = "usage"
            /\ agent_usage' = out.rows
            /\ requests' = requests \ {r}
            /\ last' = Response("track_agent_usage", r.user_id,
                                "portfolio_agent", out.result)
            /\ UNCHANGED <<subscriptions, user_agents, events, pending,
                           agent_instances, agent_objects, analysis_results>>

(***************************************************************************)
(* The system: the users' requests on the workers, the provider and its    *)
(* webhook deliveries.                                                     *)
(***************************************************************************)
Workers == {"w1", "w2"}

StripeAnswers == {"ok", "customer error", "subscription error"}

\* What create_subscription is called with: the basic tier, with or without
\* a customer of the provider, or a paid tier with the customer and, if
\* there is one, the subscription the provider holds for it.
SeedInputs ==
    {<<"basic", None, None>>}
    \cup {<<t, c, None>> : t \in SubscriptionTier,
                           c \in fresh_customers(subscriptions, events)}
    \cup {in \in {"professional", "enterprise"} \X CustomerRefs
                    \X SubscriptionRefs :
            /\ provider_created(events, in[3])
            /\ creation_event(events, in[3]).customer = in[2]}

Next ==
    \/ \E u \in Users, a \in AgentInputs : CheckAgentAccess(u, a)
    \/ \E w \in Workers, u \in Users, a \in AgentInputs :
            CheckAgentAccessLookup(w, u, a)
    \/ \E w \in Workers : CheckAgentAccessInsert(w)
    \/ \E u \in Users, a \in AgentInputs, enabled \in BOOLEAN :
            ToggleAgent(u, a, enabled)
    \/ \E u \in Users : CreateUser(u)
    \/ \E u \in Users, in \in SeedInputs :
            AuthCreateSubscription(u, in[1], in[2], in[3])
    \/ \E u \in Users, p \in PriceInputs, x \in StripeAnswers,
          st \in CreateStatuses :
            CreateNewSubscription(u, p, x, st)
    \/ \E u \in Users, x \in {"ok", "subscription error"} :
            CancelCurrentSubscription(u, x)
    \/ \E s \in SubscriptionRefs, st \in UpdateStatuses, c \in BOOLEAN :
            ProviderUpdate(s, st, c)
    \/ \E s \in SubscriptionRefs : ProviderDelete(s)
    \/ \E s \in SubscriptionRefs : ProviderExpire(s)
    \/ \E i \in DOMAIN events : Webhook(i)
    \/ WebhookUnhandled
    \/ \E w \in Workers, e \in DOMAIN PortfolioEndpoints, u \in Users,
          a \in AgentInputs, loads \in BOOLEAN :
            PortfolioRequest(w, e, u, a, loads)
    \/ \E w \in Workers, ok \in BOOLEAN, t \in TokenInputs :
            AgentAnswers(w, ok, t)
    \/ \E w \in Workers, now \in Clock : TrackAgentUsage(w, now)
    \/ \E i \in DOMAIN events : WebhookMalformed(i)
    \/ \E i \in DOMAIN events, p \in {None, NoItems} : WebhookUnpriced(i, p)

Spec == Init /\ [][Next]_vars

(***************************************************************************)
(* Scenarios: the same operations on fewer inputs.  User 1 signs up with   *)
(* no row, or is given a basic subscription that may carry a customer of   *)
(* the provider; user 2 is registered through create_user.                 *)
(***************************************************************************)
SignUp ==
    \/ \E c \in {None} \cup fresh_customers(subscriptions, events) :
            /\ new_user(1)
            /\ AuthCreateSubscription(1, "basic", c, None)
    \/ CreateUser(2)

\* what user 1 and user 2 ask check_agent_access for
AccessInputs == ({1} \X AgentInputs) \cup {<<2, "portfolio_agent">>}

\* the plans user 1 subscribes to, and the status the provider starts each in
PlanInputs ==
    {<<"price_pro", "trialing">>, <<"price_ent", "trialing">>,
     <<"price_ent", "incomplete">>}

\* the updates the provider sends: active again, or past due and not renewing
UpdateInputs == {<<"active", FALSE>>, <<"past_due", TRUE>>}

\* Entitlement checks and toggles, over subscriptions that the created event
\* of a provider subscription turns paid.
NextAccess ==
    \/ \E in \in AccessInputs : CheckAgentAccess(in[1], in[2])
    \/ \E a \in AgentInputs, enabled \in BOOLEAN :
            ToggleAgent(1, a, enabled)
    \/ SignUp
    \/ \E in \in PlanInputs :
            CreateNewSubscription(1, in[1], "ok", in[2])
    \/ \E i \in DOMAIN events : Webhook(i)

SpecAccess == Init /\ [][NextAccess]_vars

\* The subscription lifecycle of user 1: the endpoints, the provider and its
\* deliveries.
NextBilling ==
    \/ SignUp
    \/ \E x \in StripeAnswers, st \in CreateStatuses :
            CreateNewSubscription(1, "price_ent", x, st)
    \/ \E x \in {"ok", "subscription error"} :
            CancelCurrentSubscription(1, x)
    \/ \E s \in SubscriptionRefs, in \in UpdateInputs :
            ProviderUpdate(s, in[1], in[2])
    \/ \E s \in SubscriptionRefs : ProviderDelete(s)
    \/ \E i \in DOMAIN events : Webhook(i)

SpecBilling == Init /\ [][NextBilling]_vars

\* the plans of the reconciliation scenario: a catalog price on trial and a
\* price of no tier, unpaid
WebhookPlans == {<<"price_pro", "trialing">>, <<"price_other", "incomplete">>}

\* Reconciliation: user 1's row, made by create_subscription with any of its
\* inputs, against the events the provider emits for user 1's subscriptions
\* and an event of another type.
NextWebhook ==
    \/ \E in \in SeedInputs :
            /\ new_user(1)
            /\ AuthCreateSubscription(1, in[1], in[2], in[3])
    \/ \E in \in WebhookPlans :
            CreateNewSubscription(1, in[1], "ok", in[2])
    \/ \E s \in SubscriptionRefs, in \in UpdateInputs :
            ProviderUpdate(s, in[1], in[2])
    \/ \E s \in SubscriptionRefs : ProviderDelete(s)
    \/ \E s \in SubscriptionRefs : ProviderExpire(s)
    \/ \E i \in DOMAIN events : Webhook(i)
    \/ WebhookUnhandled

SpecWebhook == Init /\ [][NextWebhook]_vars

\* Entitlement checks of several workers on one store.
NextRace ==
    \/ \E u \in Users, a \in AgentInputs : CheckAgentAccess(u, a)
    \/ \E w \in Workers, u \in Users, a \in AgentInputs :
            CheckAgentAccessLookup(w, u, a)
    \/ \E w \in Workers : CheckAgentAccessInsert(w)
    \/ \E u \in Users, a \in AgentInputs, enabled \in BOOLEAN :
            ToggleAgent(u, a, enabled)

SpecRace == Init /\ [][NextRace]_vars

\* the capabilities user 1 asks for: one of every tier, one of the paid
\* tiers, one of enterprise only
DowngradeAgents == {"portfolio_agent", "stockfinder", "tradeagent"}

\* Downgrade: user 1 subscribes to the enterprise plan, uses its
\* capabilities, disables one, and the provider ends the subscription.
NextDowngrade ==
    \/ \E c \in fresh_customers(subscriptions, events) :
            /\ new_user(1)
            /\ AuthCreateSubscription(1, "basic", c, None)
    \/ CreateNewSubscription(1, "price_ent", "ok", "trialing")
    \/ \E s \in SubscriptionRefs : ProviderDelete(s)
    \/ \E i \in DOMAIN events : Webhook(i)
    \/ \E a \in DowngradeAgents : CheckAgentAccess(1, a)
    \/ ToggleAgent(1, "stockfinder", FALSE)

SpecDowngrade == Init /\ [][NextDowngrade]_vars

\* Resubscription: user 1 is given a basic row with a new customer whenever
\* the resolved row carries none, subscribes to the enterprise plan, and
\* the provider ends subscriptions and delivers its events in any order,
\* any number of times.
NextResubscribe ==
    \/ \E c \in fresh_customers(subscriptions, events) :
        LET cur == get_subscription_user(subscriptions, 1).subscription
        IN  /\ IF cur = 0 THEN TRUE
                ELSE subscriptions[cur].stripe_customer_id = None
            /\ AuthCreateSubscription(1, "basic", c, None)
    \/ CreateNewSubscription(1, "price_ent", "ok", "trialing")
    \/ \E s \in SubscriptionRefs : ProviderDelete(s)
    \/ \E i \in DOMAIN events : Webhook(i)

SpecResubscribe == Init /\ [][NextResubscribe]_vars

\* The portfolio endpoints: user 1, registered through create_user, sends
\* requests to two workers, with the capability named or not.
NextAgents ==
    \/ CreateUser(1)
    \/ \E w \in Workers, e \in DOMAIN PortfolioEndpoints,
          a \in {"portfolio_agent", None}, loads \in BOOLEAN :
            PortfolioRequest(w, e, 1, a, loads)
    \/ \E w \in Workers, ok \in BOOLEAN, t \in TokenInputs :
            AgentAnswers(w, ok, t)
    \/ \E w \in Workers, now \in Clock : TrackAgentUsage(w, now)

SpecAgents == Init /\ [][NextAgents]_vars

\* the agent_id a portfolio request names in its query string
PortfolioAgentInputs == {"portfolio_agent", "stockfinder"}

\* The portfolio endpoints for a paying user: user 1 subscribes to the
\* professional plan, disables capabilities and calls the analysis,
\* naming a capability in the request.
NextPortfolio ==
    \/ \E c \in fresh_customers(subscriptions, events) :
            /\ new_user(1)
            /\ AuthCreateSubscription(1, "basic", c, None)
    \/ CreateNewSubscription(1, "price_pro", "ok", "trialing")
    \/ \E i \in DOMAIN events : Webhook(i)
    \/ \E a \in PortfolioAgentInputs : ToggleAgent(1, a, FALSE)
    \/ \E w \in Workers, a \in PortfolioAgentInputs :
            PortfolioRequest(w, "analyze", 1, a, TRUE)
    \/ \E w \in Workers : AgentAnswers(w, TRUE, 3)
    \/ \E w \in Workers, now \in Clock : TrackAgentUsage(w, now)

SpecPortfolio == Init /\ [][NextPortfolio]_vars

\* What the webhook handler may be given: user 1's row, basic or
\* professional, carries a customer; the provider's events for it arrive
\* whole, without their timestamps or without a price, while the user's
\* grant is there.
NextWebhookInputs ==
    \/ \E t \in {"basic", "professional"},
          c \in fresh_customers(subscriptions, events) :
            /\ new_user(1)
            /\ AuthCreateSubscription(1, t, c, None)
    \/ CreateNewSubscription(1, "price_ent", "ok", "trialing")
    \/ \E s \in SubscriptionRefs, in \in UpdateInputs :
            ProviderUpdate(s, in[1], in[2])
    \/ \E s \in SubscriptionRefs : ProviderDelete(s)
    \/ \E i \in DOMAIN events : Webhook(i)
    \/ \E i \in DOMAIN events : WebhookMalformed(i)
    \/ \E i \in DOMAIN events, p \in {None, NoItems} : WebhookUnpriced(i, p)
    \/ CheckAgentAccess(1, "portfolio_agent")

SpecWebhookInputs == Init /\ [][NextWebhookInputs]_vars

(***************************************************************************)
(* Properties of the entitlement checks.                                   *)
(***************************************************************************)
\* every capability id of the catalog, and one that is in no tier
Capabilities == Range(SUBSCRIPTION_TIERS["enterprise"].agents) \cup {"no_agent"}

\* the capability is in the catalog's list for the tier
in_tier(tier, agent_id) ==
    /\ tier \in DOMAIN SUBSCRIPTION_TIERS
    /\ \E i \in DOMAIN SUBSCRIPTION_TIERS[tier].agents :
            SUBSCRIPTION_TIERS[tier].agents[i] = agent_id

\* the rows of user_agents for the pair
grants(user_id, agent_id) ==
    {i \in DOMAIN user_agents :
        /\ user_agents[i].user_id = user_id
        /\ user_agents[i].agent_id = agent_id}

has_disabled_grant(user_id, agent_id) ==
    \E i \in grants(user_id, agent_id) : ~user_agents[i].is_enabled

has_active_subscription(user_id) ==
    \E i \in DOMAIN subscriptions :
        subscriptions[i].user_id = user_id /\ subscriptions[i].is_active

resolved_tier(user_id) == get_subscription_user(subscriptions, user_id).tier

\* what check_agent_access answers the user in this state
access(user_id, agent_id) ==
    check_agent_access(resolved_tier(user_id), user_id, agent_id, user_agents)

\* C1: for every user and capability id, check_agent_access allows, and
\* returns the user's grant, if and only if the capability is in the list of
\* the tier of the user's resolved subscription and the user has no grant
\* for it with is_enabled = false; so was the last call served answered.
AllowedIffInTierAndNotDisabled ==
    /\ \A u \in Users, a \in Capabilities \cup {None} :
        /\ access(u, a).result = "allowed"
            <=> in_tier(resolved_tier(u), a) /\ ~has_disabled_grant(u, a)
        /\ access(u, a).result = "allowed"
            => access(u, a).rows[access(u, a).user_agent] = UserAgent(u, a, TRUE)
    /\ last.op = "check_agent_access"
        => (last.result = "allowed"
                <=> /\ in_tier(resolved_tier(last.user), last.arg)
                    /\ ~has_disabled_grant(last.user, last.arg))

\* a call denied for a capability of the caller's paid tier, its grant being
\* disabled
DeniedInPaidTierByDisabledGrant ==
    /\ last.op = "check_agent_access"
    /\ last.result # "allowed"
    /\ resolved_tier(last.user) # "basic"
    /\ in_tier(resolved_tier(last.user), last.arg)
    /\ has_disabled_grant(last.user, last.arg)

\* C2: a user with no Subscription row that has is_active = true is resolved
\* to tier basic with no subscription, and check_agent_access allows the
\* user no capability outside the basic tier's list.
NoActiveRowResolvesToBasic ==
    /\ \A u \in Users :
        ~has_active_subscription(u) =>
            /\ get_subscription_user(subscriptions, u) =
                    [subscription |-> 0, tier |-> "basic"]
            /\ \A a \in Capabilities :
                    ~in_tier("basic", a) => access(u, a).result # "allowed"
            /\ \A a \in Capabilities :
                    access(u, a).result = "allowed" => in_tier("basic", a)
    /\ /\ last.op = "check_agent_access"
       /\ ~has_active_subscription(last.user)
       /\ last.result = "allowed"
       => in_tier("basic", last.arg)

\* a user whose only rows are inactive paid ones was denied a capability of
\* that paid tier
InactivePaidRowDeniedPaidCapability ==
    /\ last.op = "check_agent_access"
    /\ last.result = "403 tier"
    /\ ~has_active_subscription(last.user)
    /\ \E i \in DOMAIN subscriptions :
            /\ subscriptions[i].user_id = last.user
            /\ in_tier(subscriptions[i].tier, last.arg)

\* C8: two check_agent_access calls in sequence for a pair with no grant
\* whose capability is in the user's tier: the first creates one row with
\* is_enabled = true and allows, the second finds it, creates nothing and
\* allows; a call served and allowed leaves exactly one row for its pair.
TwoCallsOneGrant ==
    /\ \A u \in Users, a \in Capabilities :
        in_tier(resolved_tier(u), a) /\ grants(u, a) = {} =>
            LET first == access(u, a)
                second == check_agent_access(resolved_tier(u), u, a, first.rows)
            IN  /\ first.result = "allowed"
                /\ first.rows = Append(user_agents, UserAgent(u, a, TRUE))
                /\ first.user_agent = Len(first.rows)
                /\ second.result = "allowed"
                /\ second.rows = first.rows
                /\ second.user_agent = first.user_agent
    /\ last.op = "check_agent_access" /\ last.result = "allowed"
        => /\ Cardinality(grants(last.user, last.arg)) = 1
           /\ \A i \in grants(last.user, last.arg) : user_agents[i].is_enabled

\* a call was allowed for a capability create_user grants nobody, its grant
\* made by first touch, while another pair of the tier is still fresh
FirstTouchGrantServed ==
    /\ last.op = "check_agent_access"
    /\ last.result = "allowed"
    /\ ~in_tier("basic", last.arg)
    /\ Cardinality(grants(last.user, last.arg)) = 1
    /\ \E a \in Capabilities :
            in_tier(resolved_tier(last.user), a) /\ grants(last.user, a) = {}

\* C9: check_agent_access denies with the tier reason exactly when the
\* capability is not in the user's tier, whatever grant exists, and with the
\* disabled reason exactly when the capability is in the tier and the
\* user's grant has is_enabled = false; so was the last call served answered.
DenialReasons ==
    /\ \A u \in Users, a \in Capabilities :
        /\ access(u, a).result = "403 tier" <=> ~in_tier(resolved_tier(u), a)
        /\ access(u, a).result = "403 disabled"
            <=> in_tier(resolved_tier(u), a) /\ has_disabled_grant(u, a)
    /\ last.op = "check_agent_access" /\ last.arg # None
        => /\ last.result = "403 tier"
                <=> ~in_tier(resolved_tier(last.user), last.arg)
           /\ last.result = "403 disabled"
                <=> /\ in_tier(resolved_tier(last.user), last.arg)
                    /\ has_disabled_grant(last.user, last.arg)

\* a call denied with the tier reason although the user holds a grant for
\* the capability
TierDenialDespiteGrant ==
    /\ last.op = "check_agent_access"
    /\ last.result = "403 tier"
    /\ grants(last.user, last.arg) # {}

\* C7: no interleaving of the lookups and inserts of concurrent
\* check_agent_access calls leaves two UserAgent rows for one (user,
\* capability) pair.
NoDuplicateGrants ==
    \A u \in Users, a \in Capabilities : Cardinality(grants(u, a)) <= 1

(***************************************************************************)
(* Properties of the subscription lifecycle.                               *)
(***************************************************************************)
\* the events of the log the provider emitted for a subscription
events_of(sub) == {i \in DOMAIN events : events[i].id = sub}

\* every order in which a set of events is delivered once each
orders(S) ==
    {p \in [1..Cardinality(S) -> S] :
        \A i, j \in 1..Cardinality(S) : i # j => p[i] # p[j]}

\* the subscriptions table after process_stripe_webhook has handled the
\* events of the log at the indices of order, one after the other
RECURSIVE deliver(_, _)
deliver(order, rows) ==
    IF order = <<>> THEN rows
    ELSE deliver(Tail(order),
                 process_stripe_webhook(events[Head(order)], rows).rows)

\* C3: each user has at most one Subscription row with is_active = true.
AtMostOneActiveSubscription ==
    \A u \in Users :
        Cardinality({i \in DOMAIN subscriptions :
                        /\ subscriptions[i].user_id = u
                        /\ subscriptions[i].is_active}) <= 1

\* C4: handling the same customer.subscription.deleted event twice adds at
\* most one basic row in total, and the row it matches has is_active = false
\* after the first and after the second time.
DeletedTwiceAddsOneRow ==
    \A i \in DOMAIN events :
        LET id == first_by_subscription(subscriptions, events[i].id)
            once == process_stripe_webhook(events[i], subscriptions).rows
            twice == process_stripe_webhook(events[i], once).rows
        IN  events[i].type = "customer.subscription.deleted" /\ id # 0 =>
                /\ Len(twice) <= Len(subscriptions) + 1
                /\ ~once[id].is_active
                /\ ~twice[id].is_active

\* C5: once a customer.subscription.deleted event has been handled, a
\* customer.subscription.updated event of the same subscription that the
\* provider emitted earlier, with status active or trialing, does not set
\* the row's is_active back to true when it is handled afterwards.
StaleUpdateDoesNotReactivate ==
    \A i, j \in DOMAIN events :
        LET after == process_stripe_webhook(events[j], subscriptions).rows
            id == first_by_subscription(after, events[j].id)
            stale == process_stripe_webhook(events[i], after).rows
        IN  /\ i < j
            /\ events[i].id = events[j].id
            /\ events[i].type = "customer.subscription.updated"
            /\ status_is_active(events[i].status)
            /\ events[j].type = "customer.subscription.deleted"
            /\ id # 0
            => ~after[id].is_active /\ ~stale[id].is_active

\* C6: for a provider subscription, after every event emitted for it has
\* been delivered, in whatever order, the row bound to it has is_active =
\* true iff the provider's last event is not the deletion and carries
\* status active or trialing.
ConvergesInAnyOrder ==
    \A sub \in SubscriptionRefs :
        provider_created(events, sub) =>
            \A order \in orders(events_of(sub)) :
                LET rows == deliver(order, subscriptions)
                    id == first_by_subscription(rows, sub)
                    final == events[Max(events_of(sub))]
                IN  id # 0 =>
                        rows[id].is_active =
                            (/\ final.type # "customer.subscription.deleted"
                             /\ status_is_active(final.status))

\* C10: create_new_subscription by a user whose resolved subscription is
\* active with a tier other than basic answers the conflict error, makes no
\* provider call and leaves both tables and the provider as they were,
\* whatever the price, the provider's answer and status would have been.
ConflictRejectedBeforeProvider ==
    \A u \in Users :
        LET cur == get_subscription_user(subscriptions, u).subscription
        IN  /\ cur # 0
            /\ subscriptions[cur].is_active
            /\ subscriptions[cur].tier # "basic"
            => \A p \in PriceInputs, x \in StripeAnswers, st \in CreateStatuses :
                create_new_subscription(u, p, x, st, subscriptions,
                                        user_agents, events)
                = [result |-> "400 active subscription", calls |-> {},
                   rows |-> subscriptions, agents |-> user_agents,
                   log |-> events]

\* a user whose active paid subscription no longer renews was answered the
\* conflict error
ConflictServed ==
    /\ last.op = "create_new_subscription"
    /\ last.result = "400 active subscription"
    /\ \E i \in DOMAIN subscriptions :
            /\ subscriptions[i].user_id = last.user
            /\ subscriptions[i].is_active
            /\ subscriptions[i].tier # "basic"
            /\ ~subscriptions[i].auto_renew

\* C11: when a provider call fails in create_new_subscription (customer or
\* subscription creation) or in cancel_current_subscription (the provider's
\* cancel), the answer is the server error and both tables are as they
\* were; a cancel answered with the server error has written nothing.
ProviderFailureWritesNothing ==
    \A u \in Users :
        LET cur == get_subscription_user(subscriptions, u).subscription
        IN  /\ ~create_conflict(u, subscriptions) =>
                \A p \in PriceInputs, st \in CreateStatuses,
                   x \in StripeAnswers \ {"ok"} :
                    LET out == create_new_subscription(u, p, x, st,
                                    subscriptions, user_agents, events)
                    IN  /\ out.result = "500"
                        /\ out.calls # {}
                        /\ out.rows = subscriptions
                        /\ out.agents = user_agents
            /\ \A x \in StripeAnswers :
                LET out == cancel_current_subscription(u, x, subscriptions,
                                                       events)
                IN  /\ /\ cur # 0
                       /\ subscriptions[cur].tier # "basic"
                       /\ subscriptions[cur].stripe_subscription_id # None
                       /\ x # "ok"
                       => out.result = "500"
                    /\ out.result = "500" =>
                        /\ out.calls = {"Subscription.delete"}
                        /\ out.rows = subscriptions
                        /\ out.log = events

\* a cancel was answered the server error and the user's paid row still
\* renews
CancelFailedRowStillRenews ==
    /\ last.op = "cancel_current_subscription"
    /\ last.result = "500"
    /\ \E i \in DOMAIN subscriptions :
            /\ subscriptions[i].user_id = last.user
            /\ subscriptions[i].tier # "basic"
            /\ subscriptions[i].is_active
            /\ subscriptions[i].auto_renew

\* the user may call create_new_subscription and the provider will serve it
can_subscribe(user_id) ==
    /\ ~create_conflict(user_id, subscriptions)
    /\ stripe_can_create(user_id, subscriptions, events)

\* what create_new_subscription answers the user when the provider's calls
\* succeed
subscribed(user_id, price_id, status) ==
    create_new_subscription(user_id, price_id, "ok", status, subscriptions,
                            user_agents, events)

\* the row create_new_subscription writes: the resolved row, or a new one
written_row(user_id) ==
    LET cur == get_subscription_user(subscriptions, user_id).subscription
    IN  IF cur # 0 THEN cur ELSE Len(subscriptions) + 1

\* the tier whose price_id in the catalog is the price, or professional
catalog_tier(price_id) ==
    IF \E t \in DOMAIN SUBSCRIPTION_TIERS :
            SUBSCRIPTION_TIERS[t].price_id = price_id
    THEN CHOOSE t \in DOMAIN SUBSCRIPTION_TIERS :
            SUBSCRIPTION_TIERS[t].price_id = price_id
    ELSE "professional"

\* C12: create_new_subscription, the provider's calls having succeeded,
\* succeeds and sets the tier of the user's row to the catalog tier whose
\* price_id is the requested price, and to professional when none matches.
CreateSetsTierOfPrice ==
    \A u \in Users, p \in PriceInputs, st \in CreateStatuses :
        can_subscribe(u) =>
            /\ subscribed(u, p, st).result = "ok"
            /\ subscribed(u, p, st).rows[written_row(u)].tier = catalog_tier(p)

\* C13: create_new_subscription, the provider's calls having succeeded,
\* succeeds and leaves the user's row (the resolved row updated in place, or
\* a new row) with is_active = true iff the provider's status is active or
\* trialing, carrying the provider's customer and subscription refs.
CreateSetsActiveAndRefs ==
    \A u \in Users, p \in PriceInputs, st \in CreateStatuses :
        can_subscribe(u) =>
            LET out == subscribed(u, p, st)
                created == out.log[Len(out.log)]
            IN  /\ out.result = "ok"
                /\ out.rows[written_row(u)].user_id = u
                /\ out.rows[written_row(u)].is_active = status_is_active(st)
                /\ out.rows[written_row(u)].stripe_customer_id = created.customer
                /\ out.rows[written_row(u)].stripe_subscription_id = created.id

\* C14: create_new_subscription, the provider's calls having succeeded,
\* succeeds and leaves the user a grant for every capability of the new
\* tier; the grants it adds have is_enabled = true and the grants that were
\* there are kept as they were.
CreateProvisionsGrants ==
    \A u \in Users, p \in PriceInputs, st \in CreateStatuses :
        can_subscribe(u) =>
            LET out == subscribed(u, p, st)
            IN  /\ out.result = "ok"
                /\ \A a \in Capabilities :
                        in_tier(catalog_tier(p), a) =>
                            \E i \in DOMAIN out.agents :
                                /\ out.agents[i].user_id = u
                                /\ out.agents[i].agent_id = a
                /\ SubSeq(out.agents, 1, Len(user_agents)) = user_agents
                /\ \A i \in DOMAIN out.agents :
                        i > Len(user_agents) =>
                            /\ out.agents[i].user_id = u
                            /\ out.agents[i].is_enabled

\* C15: cancel_current_subscription by a user whose resolved subscription
\* is paid succeeds when the provider cancels; it sets auto_renew = false on
\* that row and changes nothing else of it, keeps every other row, and adds
\* one row for the user with tier basic and is_active = false, so the user
\* still resolves to the paid tier; so it is after a cancel served.
CancelKeepsPaidRowActive ==
    /\ \A u \in Users :
        LET cur == get_subscription_user(subscriptions, u).subscription
            out == cancel_current_subscription(u, "ok", subscriptions, events)
        IN  cur # 0 /\ subscriptions[cur].tier # "basic" =>
                /\ provider_live(events, subscriptions[cur].stripe_subscription_id)
                    => out.result = "ok"
                /\ out.result = "ok" =>
                    /\ Len(out.rows) = Len(subscriptions) + 1
                    /\ out.rows[cur] =
                            [subscriptions[cur] EXCEPT !.auto_renew = FALSE]
                    /\ out.rows[cur].is_active
                    /\ \A i \in DOMAIN subscriptions :
                            i # cur => out.rows[i] = subscriptions[i]
                    /\ out.rows[Len(out.rows)] =
                            Subscription(u, "basic", None, None, FALSE, FALSE)
                    /\ get_subscription_user(out.rows, u) =
                            get_subscription_user(subscriptions, u)
    /\ last.op = "cancel_current_subscription" /\ last.result = "ok" =>
        /\ resolved_tier(last.user) # "basic"
        /\ subscriptions[Len(subscriptions)] =
                Subscription(last.user, "basic", None, None, FALSE, FALSE)

\* a cancel was served and the user still resolves to the paid row, which
\* no longer renews
CancelServedStillPaid ==
    /\ last.op = "cancel_current_subscription"
    /\ last.result = "ok"
    /\ LET cur == get_subscription_user(subscriptions, last.user).subscription
       IN  /\ cur # 0
           /\ subscriptions[cur].tier = "enterprise"
           /\ ~subscriptions[cur].auto_renew
           /\ provider_deleted(events, subscriptions[cur].stripe_subscription_id)

\* C17: cancel_current_subscription by a user with no active row, or whose
\* resolved subscription has tier basic, answers the client error, makes no
\* provider call and leaves the table and the provider as they were.
CancelWithoutPaidSubscriptionRejected ==
    \A u \in Users :
        ~has_active_subscription(u) \/ resolved_tier(u) = "basic" =>
            \A x \in StripeAnswers :
                cancel_current_subscription(u, x, subscriptions, events)
                = [result |-> "400 no paid subscription", calls |-> {},
                   rows |-> subscriptions, log |-> events]

\* a cancel was refused to a user whose paid row is inactive
CancelRefusedInactivePaidRow ==
    /\ last.op = "cancel_current_subscription"
    /\ last.result = "400 no paid subscription"
    /\ \E i \in DOMAIN subscriptions :
            /\ subscriptions[i].user_id = last.user
            /\ subscriptions[i].tier # "basic"
            /\ ~subscriptions[i].is_active

\* the user canceled a paid subscription (the inactive basic row of the
\* cancel is there) and the deleted event has ended the paid row
canceled_and_ended(user_id) ==
    /\ \E i \in DOMAIN subscriptions :
            subscriptions[i] =
                Subscription(user_id, "basic", None, None, FALSE, FALSE)
    /\ \E i \in DOMAIN subscriptions :
            /\ subscriptions[i].user_id = user_id
            /\ subscriptions[i].tier # "basic"
            /\ ~subscriptions[i].is_active
            /\ subscriptions[i].ended_at = "dt_canceled"

\* C16: after cancel_current_subscription, once the deleted event has made
\* the canceled paid row inactive, create_new_subscription by the same user
\* is not answered the conflict error and, the provider's calls succeeding,
\* succeeds.
CreateAfterCancelSucceeds ==
    \A u \in Users, p \in PriceInputs, st \in CreateStatuses :
        canceled_and_ended(u) /\ stripe_can_create(u, subscriptions, events)
            => /\ ~create_conflict(u, subscriptions)
               /\ subscribed(u, p, st).result # "400 active subscription"
               /\ subscribed(u, p, st).result = "ok"

(***************************************************************************)
(* Properties of the webhook's branches.                                   *)
(***************************************************************************)
\* what process_stripe_webhook does with event i of the log in this state
handled(i) == process_stripe_webhook(events[i], subscriptions)

\* every row but row id is as it was
others_kept(rows, id) ==
    \A j \in DOMAIN subscriptions : j # id => rows[j] = subscriptions[j]

\* C18: a customer.subscription.created event whose customer is on a row
\* sets on that row the event's subscription ref, is_active = (status is
\* active or trialing), started_at from the start date, ended_at cleared and
\* the catalog tier of the event's price (the tier kept when the price is no
\* tier's); no other row changes and the call returns True.
CreatedEventBindsRow ==
    /\ \A i \in DOMAIN events :
        LET e == events[i]
            id == first_by_customer(subscriptions, e.customer)
        IN  e.type = "customer.subscription.created" /\ id # 0 =>
                /\ handled(i).result = "True"
                /\ Len(handled(i).rows) = Len(subscriptions)
                /\ others_kept(handled(i).rows, id)
                /\ handled(i).rows[id] =
                    [subscriptions[id] EXCEPT
                        !.stripe_subscription_id = e.id,
                        !.is_active = (e.status \in {"active", "trialing"}),
                        !.started_at = "dt_start",
                        !.ended_at = None,
                        !.tier = IF e.price_id = STRIPE_PRICE_ID_PRO
                                 THEN "professional"
                                 ELSE IF e.price_id = STRIPE_PRICE_ID_ENTERPRISE
                                 THEN "enterprise"
                                 ELSE @]
    /\ last.op = "process_stripe_webhook"
        /\ last.arg = "customer.subscription.created"
        => last.result = "True"

\* a created event was handled and a row is bound, on trial, to the tier of
\* its price
CreatedEventApplied ==
    /\ last.op = "process_stripe_webhook"
    /\ last.arg = "customer.subscription.created"
    /\ \E i \in DOMAIN subscriptions :
            /\ subscriptions[i].tier = "professional"
            /\ subscriptions[i].stripe_subscription_id # None
            /\ subscriptions[i].is_active
            /\ subscriptions[i].started_at = "dt_start"

\* C19: a customer.subscription.updated event whose subscription ref is on
\* a row sets is_active = (status is active or trialing) and, when
\* cancel_at_period_end is set, auto_renew = false and ended_at = the
\* period end, otherwise auto_renew = true and ended_at cleared; no other
\* row changes and the call returns True.
UpdatedEventSetsRenewal ==
    /\ \A i \in DOMAIN events :
        LET e == events[i]
            id == first_by_subscription(subscriptions, e.id)
        IN  e.type = "customer.subscription.updated" /\ id # 0 =>
                /\ handled(i).result = "True"
                /\ Len(handled(i).rows) = Len(subscriptions)
                /\ others_kept(handled(i).rows, id)
                /\ handled(i).rows[id] =
                    [subscriptions[id] EXCEPT
                        !.is_active = (e.status \in {"active", "trialing"}),
                        !.auto_renew = ~e.cancel_at_period_end,
                        !.ended_at = IF e.cancel_at_period_end
                                     THEN "dt_period_end" ELSE None]
    /\ last.op = "process_stripe_webhook"
        /\ last.arg = "customer.subscription.updated"
        => last.result = "True"

\* an updated event was handled and a row is past due, not renewing, ending
\* with its period
UpdatedEventApplied ==
    /\ last.op = "process_stripe_webhook"
    /\ last.arg = "customer.subscription.updated"
    /\ \E i \in DOMAIN subscriptions :
            /\ subscriptions[i].stripe_subscription_id # None
            /\ ~subscriptions[i].is_active
            /\ ~subscriptions[i].auto_renew
            /\ subscriptions[i].ended_at = "dt_period_end"

\* C20: a customer.subscription.deleted event whose subscription ref is on
\* a row sets that row's is_active = false, auto_renew = false and ended_at =
\* the cancel time, or the period end when there is no cancel time, and
\* adds one row for the same user with tier basic, is_active = true and
\* auto_renew = false; no other row changes and the call returns True.
DeletedEventEndsRow ==
    /\ \A i \in DOMAIN events :
        LET e == events[i]
            id == first_by_subscription(subscriptions, e.id)
        IN  e.type = "customer.subscription.deleted" /\ id # 0 =>
                /\ handled(i).result = "True"
                /\ Len(handled(i).rows) = Len(subscriptions) + 1
                /\ others_kept(handled(i).rows, id)
                /\ handled(i).rows[id] =
                    [subscriptions[id] EXCEPT
                        !.is_active = FALSE,
                        !.auto_renew = FALSE,
                        !.ended_at = IF e.canceled_at # None
                                     THEN "dt_canceled" ELSE "dt_period_end"]
                /\ handled(i).rows[Len(subscriptions) + 1] =
                    Subscription(subscriptions[id].user_id, "basic", None,
                                 None, TRUE, FALSE)
    /\ last.op = "process_stripe_webhook"
        /\ last.arg = "customer.subscription.deleted"
        => last.result = "True"

\* a deleted event with no cancel time was handled: the paid row ended with
\* its period and the last row is the user's new basic one
DeletedEventApplied ==
    /\ last.op = "process_stripe_webhook"
    /\ last.arg = "customer.subscription.deleted"
    /\ \E i \in DOMAIN subscriptions :
            /\ subscriptions[i].stripe_subscription_id # None
            /\ ~subscriptions[i].is_active
            /\ subscriptions[i].ended_at = "dt_period_end"
            /\ \E j \in DOMAIN events :
                    /\ events[j].id = subscriptions[i].stripe_subscription_id
                    /\ events[j].type = "customer.subscription.deleted"
                    /\ events[j].canceled_at = None
            /\ subscriptions[Len(subscriptions)] =
                    Subscription(subscriptions[i].user_id, "basic", None,
                                 None, TRUE, FALSE)

\* event types outside the three the handler knows, and the missing type
OtherEventTypes == {"invoice.paid", "customer.created", None}

\* C21: an event of a type other than customer.subscription.created,
\* .updated and .deleted is accepted: process_stripe_webhook returns True
\* and leaves every row as it was, whatever refs the event carries.
OtherEventsAccepted ==
    /\ \A t \in OtherEventTypes, c \in CustomerRefs, sub \in SubscriptionRefs,
          st \in UpdateStatuses \cup {"paid"} :
        process_stripe_webhook(
            Event(t, sub, c, st, FALSE, STRIPE_PRICE_ID_PRO, None),
            subscriptions)
        = [result |-> "True", rows |-> subscriptions]
    /\ process_stripe_webhook(UnhandledEvent, subscriptions)
        = [result |-> "True", rows |-> subscriptions]
    /\ last.op = "process_stripe_webhook" /\ last.arg \in OtherEventTypes
        => last.result = "True"

\* an event of another type was handled while a row carries its customer
OtherEventServed ==
    /\ last.op = "process_stripe_webhook"
    /\ last.arg = "invoice.paid"
    /\ last.result = "True"
    /\ first_by_customer(subscriptions, UnhandledEvent.customer) # 0

\* the event finds no row: none with its customer for created, none with
\* its subscription ref for updated and deleted
lookup_miss(e, rows) ==
    IF e.type = "customer.subscription.created"
    THEN \A j \in DOMAIN rows : rows[j].stripe_customer_id # e.customer
    ELSE \A j \in DOMAIN rows : rows[j].stripe_subscription_id # e.id

\* C22: a created, updated or deleted event that matches no row is skipped:
\* process_stripe_webhook returns True and leaves every row as it was.
LookupMissSkipped ==
    /\ \A i \in DOMAIN events :
        lookup_miss(events[i], subscriptions) =>
            handled(i) = [result |-> "True", rows |-> subscriptions]
    /\ \A t \in {"customer.subscription.created",
                 "customer.subscription.updated",
                 "customer.subscription.deleted"},
          c \in CustomerRefs, sub \in SubscriptionRefs :
        LET e == Event(t, sub, c, "active", FALSE, STRIPE_PRICE_ID_PRO,
                       "ts_canceled")
        IN  lookup_miss(e, subscriptions) =>
                process_stripe_webhook(e, subscriptions)
                = [result |-> "True", rows |-> subscriptions]

\* a deleted event was handled while the user's rows carry no subscription
\* ref
DeletedEventMissed ==
    /\ last.op = "process_stripe_webhook"
    /\ last.arg = "customer.subscription.deleted"
    /\ last.result = "True"
    /\ subscriptions # <<>>
    /\ \A i \in DOMAIN events :
            events[i].type = "customer.subscription.deleted"
                => lookup_miss(events[i], subscriptions)

\* C23: the created and the updated branch set absolute state: handling the
\* same created or updated event twice in succession leaves every row as
\* handling it once does, with the same answer.
CreatedUpdatedIdempotent ==
    \A i \in DOMAIN events :
        events[i].type \in {"customer.subscription.created",
                            "customer.subscription.updated"}
            => process_stripe_webhook(events[i], handled(i).rows) = handled(i)

\* an updated event that sets auto_renew was handled, and handling it again
\* changes nothing
UpdatedEventHandledOnce ==
    /\ last.op = "process_stripe_webhook"
    /\ last.arg = "customer.subscription.updated"
    /\ \E i \in DOMAIN events :
            /\ events[i].type = "customer.subscription.updated"
            /\ ~events[i].cancel_at_period_end
            /\ first_by_subscription(subscriptions, events[i].id) # 0
            /\ handled(i).rows = subscriptions

\* what handling the deleted event i leaves the user of its row entitled
\* to: none of what the row's tier adds to basic
downgraded(i) ==
    LET id == first_by_subscription(subscriptions, events[i].id)
        u == subscriptions[id].user_id
        tier == get_subscription_user(handled(i).rows, u).tier
    IN  /\ handled(i).result = "True"
        /\ tier = "basic"
        /\ \A a \in Capabilities :
            in_tier(subscriptions[id].tier, a) /\ ~in_tier("basic", a) =>
                check_agent_access(tier, u, a, user_agents).result = "403 tier"

\* the step applies a deleted event to a row
deleted_event_step ==
    /\ subscriptions' # subscriptions
    /\ last'.op = "process_stripe_webhook"
    /\ last'.arg = "customer.subscription.deleted"

\* C24: when a customer.subscription.deleted event is applied to a user's
\* paid subscription, the step leaves every UserAgent row as it was, none
\* deleted and none disabled, and the user resolves to basic, so that
\* check_agent_access denies with the tier reason every capability of the
\* former tier that basic does not have, whatever grants exist.
DowngradeKeepsGrantsDeniesPaid ==
    /\ [](\A i \in DOMAIN events :
            /\ events[i].type = "customer.subscription.deleted"
            /\ first_by_subscription(subscriptions, events[i].id) # 0
            => downgraded(i))
    /\ [][deleted_event_step => user_agents' = user_agents]_vars

\* after the downgrade the user is denied, for the tier, a capability of the
\* ended paid row for which an enabled grant is still there
DowngradedDeniedDespiteGrant ==
    /\ last.op = "check_agent_access"
    /\ last.result = "403 tier"
    /\ resolved_tier(last.user) = "basic"
    /\ \E g \in grants(last.user, last.arg) : user_agents[g].is_enabled
    /\ \E i \in DOMAIN subscriptions :
            /\ subscriptions[i].user_id = last.user
            /\ ~subscriptions[i].is_active
            /\ subscriptions[i].ended_at = "dt_canceled"
            /\ in_tier(subscriptions[i].tier, last.arg)

\* C25: the catalog is monotone: every capability of basic is in
\* professional and every capability of professional is in enterprise, so
\* a capability that passes the tier check at one tier passes it at every
\* higher tier.
CatalogMonotone ==
    /\ Range(SUBSCRIPTION_TIERS["basic"].agents)
        \subseteq Range(SUBSCRIPTION_TIERS["professional"].agents)
    /\ Range(SUBSCRIPTION_TIERS["professional"].agents)
        \subseteq Range(SUBSCRIPTION_TIERS["enterprise"].agents)
    /\ \A lo \in DOMAIN TierOrder, hi \in DOMAIN TierOrder, u \in Users,
          a \in Capabilities :
        /\ lo < hi
        /\ check_agent_access(TierOrder[lo], u, a, user_agents).result
                # "403 tier"
        => check_agent_access(TierOrder[hi], u, a, user_agents).result
                # "403 tier"
    /\ \A lo \in DOMAIN TierOrder, hi \in DOMAIN TierOrder :
        lo <= hi =>
            available_agents(TierOrder[lo])
                \subseteq available_agents(TierOrder[hi])

\* an enterprise user was allowed a capability that professional adds to
\* basic
ProfessionalCapabilityAtEnterprise ==
    /\ last.op = "check_agent_access"
    /\ last.result = "allowed"
    /\ resolved_tier(last.user) = "enterprise"
    /\ in_tier("professional", last.arg)
    /\ ~in_tier("basic", last.arg)

\* C29: once a user has set a capability of their tier to enabled = false
\* through the toggle endpoint, a toggle with enabled = true succeeds and
\* sets is_enabled = true, and check_agent_access then allows the
\* capability again.
DisabledCanBeEnabledAgain ==
    \A u \in Users, a \in Capabilities :
        in_tier(resolved_tier(u), a) /\ has_disabled_grant(u, a) =>
            LET out == toggle_agent(resolved_tier(u), u, a, TRUE, user_agents)
            IN  /\ out.result = "ok"
                /\ \E g \in DOMAIN out.rows :
                        /\ out.rows[g].user_id = u
                        /\ out.rows[g].agent_id = a
                        /\ out.rows[g].is_enabled
                /\ \A g \in DOMAIN out.rows :
                        out.rows[g].user_id = u /\ out.rows[g].agent_id = a
                            => out.rows[g].is_enabled
                /\ check_agent_access(resolved_tier(u), u, a, out.rows).result
                        = "allowed"

\* C30: handling a customer.subscription.deleted event for subscription ref
\* S leaves the resolved tier of every user whose resolved active
\* subscription carries another ref as it was.
DeletedEventOfOtherRefKeepsTier ==
    \A i \in DOMAIN events, u \in Users :
        LET cur == get_subscription_user(subscriptions, u)
        IN  /\ events[i].type = "customer.subscription.deleted"
            /\ cur.subscription # 0
            /\ subscriptions[cur.subscription].stripe_subscription_id
                    \notin {None, events[i].id}
            => get_subscription_user(handled(i).rows, u).tier = cur.tier

\* the backends constructed for the agent id
constructed(agent_id) ==
    {k \in DOMAIN agent_objects : agent_objects[k] = agent_id}

\* C26: whatever requests call get_agent_instance for an agent id while
\* others that called it are still in flight, at most one backend is
\* constructed for the id, exactly one once a call has returned, and every
\* call, concurrent or later, returns that cached instance.
BackendConstructedOnce ==
    /\ \A a \in AGENT_MODULES :
        /\ Cardinality(constructed(a)) <= 1
        /\ agent_instances[a] # 0 => constructed(a) = {agent_instances[a]}
        /\ agent_instances[a] = 0 => constructed(a) = {}
    /\ \A r \in requests :
        /\ r.agent = agent_instances["portfolio_agent"]
        /\ constructed("portfolio_agent") = {r.agent}
    /\ \A a \in AGENT_MODULES, loads \in BOOLEAN :
        LET got == get_agent_instance(a, agent_instances, agent_objects,
                                      loads)
        IN  /\ agent_instances[a] # 0 =>
                got = [result |-> "instance",
                       instance |-> agent_instances[a],
                       cache |-> agent_instances, objects |-> agent_objects]
            /\ got.result = "instance" =>
                /\ got.cache[a] = got.instance
                /\ {k \in DOMAIN got.objects : got.objects[k] = a}
                        = {got.instance}

\* two requests on different workers hold the one backend at the same time
TwoRequestsShareBackend ==
    /\ \E r1 \in requests, r2 \in requests :
            /\ r1.worker # r2.worker
            /\ r1.pc = "agent"
            /\ r2.pc = "agent"
            /\ r1.agent = r2.agent
    /\ Cardinality(constructed("portfolio_agent")) = 1

\* the rows of the table for the key
usage_rows(rows, user_agent_id, subscription_id, now) ==
    {i \in DOMAIN rows :
        /\ rows[i].user_agent_id = user_agent_id
        /\ rows[i].subscription_id = subscription_id
        /\ rows[i].month = now[1]
        /\ rows[i].year = now[2]}

\* the sum of a counter over a set of rows
RECURSIVE usage_sum(_, _, _)
usage_sum(rows, ids, counter) ==
    IF ids = {} THEN 0
    ELSE LET i == CHOOSE j \in ids : TRUE
         IN  rows[i][counter] + usage_sum(rows, ids \ {i}, counter)

\* the grants and subscriptions a usage call can be for (0: no subscription)
UsageKeys == (1..MaxUserAgents) \X (0..MaxSubscriptions) \X Clock

UsageCountersAdditive ==
    /\ \A key \in UsageKeys, t \in TokenInputs :
        LET out == track_agent_usage(key[1], key[2], 1, t, TRUE, key[3],
                                     agent_usage)
            before == usage_rows(agent_usage, key[1], key[2], key[3])
            after == usage_rows(out.rows, key[1], key[2], key[3])
        IN  /\ usage_sum(out.rows, after, "request_count")
                = usage_sum(agent_usage, before, "request_count") + 1
            /\ usage_sum(out.rows, after, "token_count")
                = usage_sum(agent_usage, before, "token_count") + t
    /\ last.op = "track_agent_usage" =>
        \E i \in DOMAIN agent_usage : agent_usage[i].request_count >= 1

(***************************************************************************)
(* Properties of the subscription lifecycle and of the frames.             *)
(***************************************************************************)
\* the provider subscriptions made by create_new_subscription calls that
\* the provider has not ended
live_subscriptions == {s \in SubscriptionRefs : provider_live(events, s)}

\* C31: once a create_new_subscription of user 1 has made a provider
\* subscription, every further create of that user is answered the conflict
\* error until that provider subscription is canceled or deleted, whatever
\* status the provider gave it; so user 1, the only user who subscribes
\* here, never has two live provider subscriptions at the same time.
OneLiveProviderSubscription ==
    /\ Cardinality(live_subscriptions) <= 1
    /\ live_subscriptions # {} =>
        \A p \in PriceInputs, st \in CreateStatuses :
            create_new_subscription(1, p, "ok", st, subscriptions,
                                    user_agents, events).result
                = "400 active subscription"

\* the rows the deleted branch added for the user: basic, active, without
\* refs, after an older row of the user
downgrade_rows(rows, u) ==
    {i \in DOMAIN rows :
        /\ rows[i] = Subscription(u, "basic", None, None, TRUE, FALSE)
        /\ \E j \in 1..(i - 1) : rows[j].user_id = u}

\* the events the provider can deliver for the refs: those of its log and
\* any created, updated or deleted event for a customer and a subscription
webhook_events ==
    Range(events) \cup
    {Event(t, sub, c, st, FALSE, p, None) :
        t \in {"customer.subscription.created",
               "customer.subscription.updated",
               "customer.subscription.deleted"},
        sub \in SubscriptionRefs, c \in CustomerRefs,
        st \in {"active", "canceled"},
        p \in {STRIPE_PRICE_ID_PRO, STRIPE_PRICE_ID_ENTERPRISE}}

\* C32: once a customer.subscription.deleted event has been applied to a
\* user's subscription, the user's resolved tier is basic, and it is still
\* basic after any further created, updated or deleted event for the same
\* customer or subscription ref, as long as no create_new_subscription of
\* the user has succeeded.
DowngradeIsStable ==
    /\ \A i \in DOMAIN events :
        LET id == first_by_subscription(subscriptions, events[i].id)
        IN  events[i].type = "customer.subscription.deleted" /\ id # 0 =>
                /\ Len(handled(i).rows) \in
                        downgrade_rows(handled(i).rows,
                                       subscriptions[id].user_id)
                /\ get_subscription_user(handled(i).rows,
                        subscriptions[id].user_id).tier = "basic"
    /\ \A u \in Users :
        downgrade_rows(subscriptions, u) # {} =>
            /\ get_subscription_user(subscriptions, u).tier = "basic"
            /\ \A e \in webhook_events :
                get_subscription_user(
                    process_stripe_webhook(e, subscriptions).rows, u).tier
                = "basic"

\* after the downgrade a late event has made the ended paid row active
\* again, and the user still resolves to basic
LateEventAfterDowngrade ==
    /\ last.op = "process_stripe_webhook"
    /\ last.arg \in {"customer.subscription.created",
                     "customer.subscription.updated"}
    /\ \E i \in downgrade_rows(subscriptions, 1) :
        \E j \in 1..(i - 1) :
            /\ subscriptions[j].user_id = 1
            /\ subscriptions[j].is_active
            /\ subscriptions[j].tier # "basic"
    /\ resolved_tier(1) = "basic"

\* C33: a portfolio request that reaches the portfolio_agent backend was
\* authorised by a check for the capability portfolio_agent: the grant its
\* usage is attributed to is the user's portfolio_agent grant, and a user
\* whose portfolio_agent grant is disabled gets no request past the check,
\* whatever agent_id the request names.
BackendInvokedForPortfolioGrant ==
    /\ \A r \in requests :
        /\ user_agents[r.user_agent].user_id = r.user_id
        /\ user_agents[r.user_agent].agent_id = "portfolio_agent"
    /\ \A u \in Users, a \in AgentInputs \cup PortfolioAgentInputs :
        has_disabled_grant(u, "portfolio_agent") =>
            check_agent_access(resolved_tier(u), u, a, user_agents).result
                # "allowed"

\* C34: the inactive basic row that cancel_current_subscription inserted
\* for a user is active once the customer.subscription.deleted event of the
\* canceled subscription has been applied.
CancelRowActivatedByDeletedEvent ==
    \A i \in DOMAIN events :
        LET id == first_by_subscription(subscriptions, events[i].id)
        IN  /\ events[i].type = "customer.subscription.deleted"
            /\ id # 0
            /\ handled(i).result = "True"
            => \A j \in DOMAIN subscriptions :
                    subscriptions[j]
                        = Subscription(subscriptions[id].user_id, "basic",
                                       None, None, FALSE, FALSE)
                    => handled(i).rows[j].is_active

\* what the handler does with event i of the log without its timestamps
mishandled(i) == process_stripe_webhook(malformed(events[i]), subscriptions)

\* C35: when process_stripe_webhook fails while handling an event, as for a
\* deleted event with neither a cancel time nor a period end or a created
\* event without a start date, it returns False and every Subscription row
\* is as before the call: nothing set on the matched row stays and no basic
\* row is added.
FailedWebhookChangesNothing ==
    /\ [](\A i \in DOMAIN events :
            /\ mishandled(i).result = "False" =>
                    mishandled(i).rows = subscriptions
            /\ handled(i).result = "False" => handled(i).rows = subscriptions
            /\ events[i].type = "customer.subscription.deleted"
                /\ first_by_subscription(subscriptions, events[i].id) # 0
                => mishandled(i).result = "False"
            /\ events[i].type = "customer.subscription.created"
                /\ first_by_customer(subscriptions, events[i].customer) # 0
                => mishandled(i).result = "False")
    /\ [][last'.op = "process_stripe_webhook" /\ last'.result = "False"
            => subscriptions' = subscriptions]_vars

\* a deleted event without its times was refused while the row of its
\* subscription is active and has no end
MalformedDeletedRefused ==
    /\ last.op = "process_stripe_webhook"
    /\ last.arg = "customer.subscription.deleted"
    /\ last.result = "False"
    /\ \E i \in DOMAIN events :
        LET id == first_by_subscription(subscriptions, events[i].id)
        IN  /\ events[i].type = "customer.subscription.deleted"
            /\ id # 0
            /\ subscriptions[id].is_active
            /\ subscriptions[id].ended_at = None

\* the step is a check_agent_access call that does not allow
denied_check_step ==
    /\ user_agents' # user_agents \/ last' # last
    /\ last'.op = "check_agent_access"
    /\ last'.result # "allowed"

\* C36: a check_agent_access call that is denied, for the tier or for a
\* disabled grant, or refused for a missing agent id, leaves every UserAgent
\* row as it was; the table changes only in a call that allows, and then by
\* the one new enabled grant of the caller for the capability.
DeniedCheckWritesNothing ==
    /\ [](\A u \in Users, a \in Capabilities \cup AgentInputs :
            LET out == access(u, a)
            IN  /\ out.result # "allowed" => out.rows = user_agents
                /\ out.rows # user_agents =>
                    /\ out.result = "allowed"
                    /\ grants(u, a) = {}
                    /\ out.rows = Append(user_agents, UserAgent(u, a, TRUE)))
    /\ [][denied_check_step => user_agents' = user_agents]_vars

\* a capability outside the tier was denied and the user has no grant for
\* it, while other grants are there
TierDenialLeftNoGrant ==
    /\ last.op = "check_agent_access"
    /\ last.result = "403 tier"
    /\ grants(last.user, last.arg) = {}
    /\ user_agents # <<>>

\* the step is a delivery to the webhook handler
webhook_step ==
    /\ subscriptions' # subscriptions \/ last' # last
    /\ last'.op = "process_stripe_webhook"

\* C37: a customer.subscription.updated event changes only is_active,
\* auto_renew and ended_at of the one row carrying its subscription ref:
\* the row's tier, refs and started_at and every other row are as before
\* and no row is added; and no delivery to the webhook handler, of whatever
\* event, changes a UserAgent row.
UpdatedEventFrame ==
    /\ [](\A i \in DOMAIN events :
            LET id == first_by_subscription(subscriptions, events[i].id)
            IN  events[i].type = "customer.subscription.updated" /\ id # 0 =>
                    /\ Len(handled(i).rows) = Len(subscriptions)
                    /\ others_kept(handled(i).rows, id)
                    /\ [handled(i).rows[id] EXCEPT
                            !.is_active = subscriptions[id].is_active,
                            !.auto_renew = subscriptions[id].auto_renew,
                            !.ended_at = subscriptions[id].ended_at]
                        = subscriptions[id])
    /\ [][webhook_step => user_agents' = user_agents]_vars

\* an updated event was applied to a row bound by its created event, while
\* the user holds a grant
UpdatedEventAppliedBesideGrant ==
    /\ last.op = "process_stripe_webhook"
    /\ last.arg = "customer.subscription.updated"
    /\ last.result = "True"
    /\ user_agents # <<>>
    /\ \E i \in DOMAIN events :
        LET id == first_by_subscription(subscriptions, events[i].id)
        IN  /\ events[i].type = "customer.subscription.updated"
            /\ id # 0
            /\ subscriptions[id].started_at = "dt_start"
            /\ handled(i).rows = subscriptions

\* C38: a customer.subscription.created event whose price is no paid tier's
\* configured price, or that carries no price, leaves the tier of the row
\* it matches as it was; and no created event sets a row's tier to basic.
CreatedEventNeverSetsBasic ==
    \A i \in DOMAIN events :
        LET id == first_by_customer(subscriptions, events[i].customer)
        IN  events[i].type = "customer.subscription.created" /\ id # 0 =>
                /\ \A p \in {"price_other", None, NoItems} :
                    LET out == process_stripe_webhook(
                                    [events[i] EXCEPT !.price_id = p],
                                    subscriptions)
                    IN  /\ out.rows[id].tier = subscriptions[id].tier
                        /\ out.rows[id].tier = "basic"
                            => subscriptions[id].tier = "basic"
                /\ handled(i).rows[id].tier = "basic"
                    => subscriptions[id].tier = "basic"

====
